---- MODULE Spec2Model ----
(***************************************************************************)
(* Model of the theological LangGraph agent: the graph executor built by   *)
(* build_graph (router fan-out, join barrier, validator gate, HITL pause   *)
(* or synthesizer), run_analysis around it (cache, audit), and the HITL    *)
(* approve-and-resume endpoint with its review store.                      *)
(*                                                                         *)
(* One analysis run (run_id RunId) is followed per behaviour; its request  *)
(* is chosen in Init.  Approval requests for that run_id are served by the *)
(* request handlers in Approvers, which run concurrently with the run and  *)
(* with each other (FastAPI run_in_threadpool).                            *)
(*                                                                         *)
(* Two further specifications exercise the stores on their own: CacheSpec  *)
(* follows several concurrent run_analysis calls through their cache       *)
(* lookup and cache write, ReviewStoreSpec applies the operations of       *)
(* hitl_service to the hitl_reviews table in any order.                    *)
(***************************************************************************)
EXTENDS Integers, Sequences, FiniteSets, TLC

VARIABLES
    req,          \* AnalysisInput of the run: [selected_modules]
    pc,           \* position of run_analysis / of the graph executor
    state,        \* TheologicalState of the run (the graph's channels)
    dispatched,   \* nodes the router sent to (set of Send targets)
    completed,    \* branch nodes that returned, in completion order
    result,       \* AnalysisResult returned by run_analysis
    cache,        \* table analysis_cache: cache_key -> row
    audit,        \* table analysis_runs:  run_id -> row
    reviews,      \* table hitl_reviews:   run_id -> row
    notified,     \* notifications handed to SMTP: sequence of records
    execLog,      \* history: nodes executed, in order, with who ran them
    synthLog,     \* history: one record per synthesizer_node call (caller, input)
    apc,          \* per approval handler: position in approve_and_synthesize
    aedit,        \* per approval handler: request.edited_content
    areview,      \* per approval handler: the review dict loaded by get_review
    aout,         \* per approval handler: outcome of its last request
    napprovals,   \* number of approval requests received so far
    auditErr,     \* history: some save_run call failed against the database
    wreq,         \* CacheSpec, per worker: the AnalysisInput of its run_analysis call
                  \* (the other specifications: the inputs of their callers)
    wpc,          \* CacheSpec, per worker: position in run_analysis
                  \* (the other specifications: the steps taken)
    wout,         \* CacheSpec, per worker: what its run returned
                  \* (EdgeSpec: the state at the edge; PoolSpec: the global _pool)
    cacheLog,     \* history: the cache calls of the followed run; the save_to_cache
                  \* calls of the workers of CacheSpec
    opLog         \* ReviewStoreSpec, history: the hitl_service calls, in order
                  \* (PoolSpec: the pools created and the close_pool calls)

vars == <<req, pc, state, dispatched, completed, result, cache, audit, reviews,
          notified, execLog, synthLog, apc, aedit, areview, aout, napprovals,
          auditErr, wreq, wpc, wout, cacheLog, opLog>>

\* The variables of CacheSpec and ReviewStoreSpec.
storeVars == <<wreq, wpc, wout, cacheLog, opLog>>

runVars == <<req, pc, state, dispatched, completed, result>>
approverVars == <<apc, aedit, areview, aout, napprovals>>

----------------------------------------------------------------------------
(* Bounds and value sets *)

\* Number of approval requests received over a behaviour.
MaxApprovals == 3

\* The concurrent handlers of POST /hitl/{run_id}/approve.
Approvers == {"h1", "h2"}

RunId == "run-1"

\* Python None for a str-typed value.
NONE == "None"

\* An Optional dict or list: None, or the container.
NoneD == [null |-> TRUE]

Some(x) == [null |-> FALSE, v |-> x]

\* The empty dict {}.
EmptyDict == [k \in {} |-> NONE]

\* The API's module names (schemas.py valid_modules).
ApiModules == {"panorama", "exegese", "teologia"}

\* The selected_modules lists validate_modules lets through: no duplicates.
ModuleLists ==
    { l \in UNION { [1..n -> ApiModules] : n \in 0..3 } :
        \A i, j \in DOMAIN l : i # j => l[i] # l[j] }

BranchNodes == {"panorama_agent", "lexical_agent", "historical_agent", "intertextual_agent"}

\* request.edited_content: absent, empty, or one of two texts.
Edits == {NONE, "", "edit-1", "edit-2"}

\* Structured outputs of the validator model: risk_level and alerts.
GateOutputs == { [risk_level |-> "low", alerts |-> <<>>],
                 [risk_level |-> "medium", alerts |-> <<"alert">>],
                 [risk_level |-> "high", alerts |-> <<"alert">>] }

\* Contents the synthesizer model may return (AnalysisOutput.content is any str).
SynthContents == {"", "final-text"}

\* Token usage reported by a model call.
Usage == [input |-> 1, output |-> 1]

----------------------------------------------------------------------------
(* Python helpers *)

\* Truth value of a str (or None) as Python's `if x` / `x or y` take it.
Truthy(x) == x # NONE /\ x # ""

\* Truth value of an Optional dict or list: None and empty containers are false.
TruthyD(x) == ~x.null /\ DOMAIN x.v # {}

\* x or y, for str values and for dict/list values
Or(x, y) == IF Truthy(x) THEN x ELSE y

OrD(x, y) == IF TruthyD(x) THEN x.v ELSE y

\* dict.get(key, default)
Get(d, k, default) == IF k \in DOMAIN d THEN d[k] ELSE default

Range(s) == { s[i] : i \in DOMAIN s }

\* json.dumps(x) if x else None   (the JSONB columns)
JsonCol(x) == IF TruthyD(x) THEN x ELSE NoneD

\* json.loads(col) if col else None
JsonLoad(col) == IF TruthyD(col) THEN col ELSE NoneD

----------------------------------------------------------------------------
(* agentState.py: reducers *)

\* Mutation of _merge_dicts: the two unpackings are swapped, the existing value
\* wins on a common key.
_merge_dicts_LeftWins(left, right) ==
    LET l == OrD(left, EmptyDict)
        r == OrD(right, EmptyDict)
    IN  [k \in DOMAIN l \cup DOMAIN r |-> IF k \in DOMAIN l THEN l[k] ELSE r[k]]

\* {**(left or {}), **(right or {})}
_merge_dicts(left, right) ==
    LET l == OrD(left, EmptyDict)
        r == OrD(right, EmptyDict)
    IN  [k \in DOMAIN l \cup DOMAIN r |-> IF k \in DOMAIN r THEN r[k] ELSE l[k]]

\* Mutation of _concat_lists: the incoming list replaces the existing one.
_concat_lists_Replace(left, right) == OrD(right, <<>>)

\* Mutation of _concat_lists: the incoming entries go in front.
_concat_lists_Prepend(left, right) == OrD(right, <<>>) \o OrD(left, <<>>)

_concat_lists(left, right) == OrD(left, <<>>) \o OrD(right, <<>>)

AccumulatorDicts == {"model_versions", "tokens_consumed"}

\* How the executor folds a node's partial update into the state: the fields
\* annotated with a reducer are merged, every other field is replaced.
ApplyUpdate(st, upd) ==
    [f \in DOMAIN st \cup DOMAIN upd |->
        IF f \notin DOMAIN upd THEN st[f]
        ELSE IF f \notin DOMAIN st THEN upd[f]
        ELSE IF f \in AccumulatorDicts THEN _merge_dicts(Some(st[f]), Some(upd[f]))
        ELSE IF f = "reasoning_steps" THEN _concat_lists(Some(st[f]), Some(upd[f]))
        ELSE upd[f]]

----------------------------------------------------------------------------
(* client.py / build.py: nodes *)

ModelTier == [LITE |-> "gemini-2.5-flash-lite",
              FLASH |-> "gemini-2.5-flash",
              TOP |-> "gemini-3-flash-preview"]

\* The ModelTier attribute each node passes to _build_node_result.
NodeTier(node) ==
    CASE node = "panorama_agent" -> "LITE"
      [] node = "lexical_agent" -> "FAST"
      [] node = "historical_agent" -> "FAST"
      [] node = "intertextual_agent" -> "LITE"
      [] node = "theological_validator" -> "TOP"
      [] node = "synthesizer" -> "TOP"

\* Evaluating ModelTier.<attr> raises AttributeError when the class has no
\* such attribute; the node then raises after its model call.
NodeRaisesAlways(node) == NodeTier(node) \notin DOMAIN ModelTier

OutputField(node) ==
    CASE node = "panorama_agent" -> "panorama_content"
      [] node = "lexical_agent" -> "lexical_content"
      [] node = "historical_agent" -> "historical_content"
      [] node = "intertextual_agent" -> "intertextual_content"
      [] node = "theological_validator" -> "validation_content"
      [] node = "synthesizer" -> "final_analysis"

\* Text returned by the model of an analysis branch / of the validator.
NodeContent(node) ==
    CASE node = "panorama_agent" -> "panorama-text"
      [] node = "lexical_agent" -> "lexical-text"
      [] node = "historical_agent" -> "historical-text"
      [] node = "intertextual_agent" -> "intertextual-text"
      [] node = "theological_validator" -> "validation-text"

_build_node_result(node_name, content, extra_fields, extra_reasoning) ==
    LET model_name == ModelTier[NodeTier(node_name)]
        reasoning_entry ==
            extra_reasoning @@
            [node |-> node_name, model |-> model_name, tokens |-> Usage]
    IN  extra_fields @@
        (OutputField(node_name) :> content) @@
        [model_versions |-> (node_name :> model_name),
         tokens_consumed |-> (node_name :> Usage),
         reasoning_steps |-> <<reasoning_entry>>]

BranchUpdate(node) == _build_node_result(node, NodeContent(node), EmptyDict, EmptyDict)

theological_validator_node(out) ==
    _build_node_result("theological_validator",
                       NodeContent("theological_validator"),
                       [risk_level |-> out.risk_level],
                       [risk_level |-> out.risk_level, alerts |-> out.alerts])

\* Mutation of synthesizer_node: the node also rewrites the validation slot.
synthesizer_node_Rewrites(content) ==
    _build_node_result("synthesizer", content, [validation_content |-> content], EmptyDict)

synthesizer_node(content) == _build_node_result("synthesizer", content, EmptyDict, EmptyDict)

----------------------------------------------------------------------------
(* analysis_service.py: request preparation *)

MODULE_MAPPING == [panorama |-> "panorama", exegese |-> "exegese", teologia |-> "historical"]

prepare_agent_state(input_data, run_id) ==
    [selected_modules |-> { MODULE_MAPPING[m] : m \in Range(input_data.selected_modules) },
     panorama_content |-> NONE,
     lexical_content |-> NONE,
     historical_content |-> NONE,
     intertextual_content |-> NONE,
     validation_content |-> NONE,
     final_analysis |-> NONE,
     run_id |-> run_id,
     model_versions |-> EmptyDict,
     tokens_consumed |-> EmptyDict,
     reasoning_steps |-> <<>>,
     risk_level |-> NONE,
     hitl_status |-> NONE]

----------------------------------------------------------------------------
(* cache_service.py: the cache key.  A str that the code takes apart (the   *)
(* book) is the sequence of its characters.                                *)

\* str.lower() on one character.
LowerChar(c) ==
    CASE c = "S" -> "s"
      [] c = "L" -> "l"
      [] c = "G" -> "g"
      [] OTHER -> c

lower(str) == [i \in DOMAIN str |-> LowerChar(str[i])]

IsSpace(c) == c = " "

RECURSIVE lstrip(_)
lstrip(str) ==
    IF str # <<>> /\ IsSpace(Head(str)) THEN lstrip(Tail(str)) ELSE str

RECURSIVE rstrip(_)
rstrip(str) ==
    IF str # <<>> /\ IsSpace(str[Len(str)]) THEN rstrip(SubSeq(str, 1, Len(str) - 1)) ELSE str

\* str.strip()
strip(str) == rstrip(lstrip(str))

\* Python's order on the module names (str comparison).
StrRank == [exegese |-> 1, panorama |-> 2, teologia |-> 3]

\* Python's order on int: the value itself.
IntRank(xs) == [v \in Range(xs) |-> v]

\* Insert x in the sorted list xs, after the elements that are not greater.
RECURSIVE InsertSorted(_, _, _)
InsertSorted(x, xs, rank) ==
    IF xs = <<>> THEN <<x>>
    ELSE IF rank[x] < rank[Head(xs)] THEN <<x>> \o xs
    ELSE <<Head(xs)>> \o InsertSorted(x, Tail(xs), rank)

\* Mutation of sorted: the list is taken as given.
sorted_AsGiven(xs, rank) == xs

\* sorted(xs): a new list, ascending, duplicates kept.
RECURSIVE sorted(_, _)
sorted(xs, rank) ==
    IF xs = <<>> THEN <<>>
    ELSE InsertSorted(Head(xs), sorted(Tail(xs), rank), rank)

\* json.dumps(..., sort_keys=True) is one-to-one on the payload and the SHA-256
\* digest is taken as injective: the normalised payload stands for the key.
generate_cache_key(book, chapter, verses, modules) ==
    [book |-> lower(strip(book)),
     chapter |-> chapter,
     verses |-> sorted(verses, IntRank(verses)),
     modules |-> sorted(modules, StrRank)]

----------------------------------------------------------------------------
(* build.py: router and conditional edge *)

\* Mutation of router_function: the third test looks for the API's name of the
\* module instead of the agent's.
router_function_ApiName(st) ==
    <<"intertextual_agent">>
    \o (IF "panorama" \in st.selected_modules THEN <<"panorama_agent">> ELSE <<>>)
    \o (IF "exegese" \in st.selected_modules THEN <<"lexical_agent">> ELSE <<>>)
    \o (IF "teologia" \in st.selected_modules THEN <<"historical_agent">> ELSE <<>>)

\* The list of Send targets the router returns.
router_function(st) ==
    <<"intertextual_agent">>
    \o (IF "panorama" \in st.selected_modules THEN <<"panorama_agent">> ELSE <<>>)
    \o (IF "exegese" \in st.selected_modules THEN <<"lexical_agent">> ELSE <<>>)
    \o (IF "historical" \in st.selected_modules THEN <<"historical_agent">> ELSE <<>>)

\* Mutation of route_after_validation: the comparison never matches, no run pauses.
route_after_validation_NeverPause(st) ==
    IF Get(st, "risk_level", "low") = "HIGH" THEN "hitl_pending" ELSE "synthesizer"

\* Mutation of route_after_validation: every risk above the default pauses.
route_after_validation_PauseAboveLow(st) ==
    IF Get(st, "risk_level", "low") # "low" THEN "hitl_pending" ELSE "synthesizer"

\* Mutation of route_after_validation: a state without a risk level is held for
\* review.
route_after_validation_MissingPauses(st) ==
    IF Get(st, "risk_level", "high") \in {"high", NONE} THEN "hitl_pending" ELSE "synthesizer"

route_after_validation(st) ==
    IF Get(st, "risk_level", "low") = "high" THEN "hitl_pending" ELSE "synthesizer"

----------------------------------------------------------------------------
(* Store operations.  `ok` is whether the database call succeeds; a failed  *)
(* call raises inside the function and has no effect on the table.          *)

\* Mutation of save_run: on conflict every column is written from the arguments.
save_run_FullUpsert(tbl, run_id, a, ok) ==
    IF ~ok THEN tbl
    ELSE [r \in DOMAIN tbl \cup {run_id} |->
            IF r = run_id
            THEN [selected_modules |-> a.selected_modules,
                  model_versions |-> JsonCol(a.model_versions),
                  tokens_consumed |-> JsonCol(a.tokens_consumed),
                  reasoning_steps |-> JsonCol(a.reasoning_steps),
                  risk_level |-> a.risk_level,
                  hitl_status |-> a.hitl_status,
                  final_analysis |-> a.final_analysis,
                  success |-> a.success,
                  error |-> a.error]
            ELSE tbl[r]]

\* Mutation of save_run: the update on conflict leaves hitl_status out.
save_run_KeepsStatus(tbl, run_id, a, ok) ==
    IF ~ok THEN tbl
    ELSE IF run_id \in DOMAIN tbl
    THEN [tbl EXCEPT ![run_id] =
            [@ EXCEPT !.final_analysis = a.final_analysis,
                      !.success = a.success,
                      !.error = a.error]]
    ELSE (run_id :>
            [selected_modules |-> a.selected_modules,
             model_versions |-> JsonCol(a.model_versions),
             tokens_consumed |-> JsonCol(a.tokens_consumed),
             reasoning_steps |-> JsonCol(a.reasoning_steps),
             risk_level |-> a.risk_level,
             hitl_status |-> a.hitl_status,
             final_analysis |-> a.final_analysis,
             success |-> a.success,
             error |-> a.error]) @@ tbl

\* Mutation of save_run: ON CONFLICT (run_id) DO NOTHING, the first record stays.
save_run_InsertOnly(tbl, run_id, a, ok) ==
    IF ~ok \/ run_id \in DOMAIN tbl THEN tbl
    ELSE (run_id :>
            [selected_modules |-> a.selected_modules,
             model_versions |-> JsonCol(a.model_versions),
             tokens_consumed |-> JsonCol(a.tokens_consumed),
             reasoning_steps |-> JsonCol(a.reasoning_steps),
             risk_level |-> a.risk_level,
             hitl_status |-> a.hitl_status,
             final_analysis |-> a.final_analysis,
             success |-> a.success,
             error |-> a.error]) @@ tbl

\* audit_service.save_run: INSERT ... ON CONFLICT (run_id) DO UPDATE of the five
\* outcome columns.  The function swallows every exception.  run_id is UNIQUE in
\* analysis_runs: the table is a function of run_id.
save_run(tbl, run_id, a, ok) ==
    IF ~ok THEN tbl
    ELSE IF run_id \in DOMAIN tbl
    THEN [tbl EXCEPT ![run_id] =
            [@ EXCEPT !.final_analysis = a.final_analysis,
                      !.success = a.success,
                      !.error = a.error,
                      !.hitl_status = a.hitl_status]]
    ELSE (run_id :>
            [selected_modules |-> a.selected_modules,
             model_versions |-> JsonCol(a.model_versions),
             tokens_consumed |-> JsonCol(a.tokens_consumed),
             reasoning_steps |-> JsonCol(a.reasoning_steps),
             risk_level |-> a.risk_level,
             hitl_status |-> a.hitl_status,
             final_analysis |-> a.final_analysis,
             success |-> a.success,
             error |-> a.error]) @@ tbl

\* Mutation of save_run_raises: a failed audit write raises to the caller.
save_run_raises_Propagates(ok) == ~ok

\* Whether a save_run call raises: its except block logs the error of the
\* database call and returns, so it never does.
save_run_raises(ok) == FALSE

\* Keyword defaults of save_run.
SaveRunDefaults ==
    [final_analysis |-> "", error |-> NONE, model_versions |-> NoneD,
     tokens_consumed |-> NoneD, reasoning_steps |-> NoneD,
     risk_level |-> NONE, hitl_status |-> NONE]

\* Mutation of get_cached_analysis: the UPDATE of a hit also blanks the row's output.
get_cached_analysis_BlanksOutput(tbl, key, ok) ==
    IF ok /\ key \in DOMAIN tbl
    THEN [tbl |-> [tbl EXCEPT ![key].hit_count = @ + 1, ![key].final_analysis = ""],
          value |-> tbl[key].final_analysis]
    ELSE [tbl |-> tbl, value |-> NONE]

\* Mutation of get_cached_analysis: the except block returns the error's text.
get_cached_analysis_ErrorAsValue(tbl, key, ok) ==
    IF ok /\ key \in DOMAIN tbl
    THEN [tbl |-> [tbl EXCEPT ![key].hit_count = @ + 1],
          value |-> tbl[key].final_analysis]
    ELSE [tbl |-> tbl, value |-> IF ok THEN NONE ELSE "connection refused"]

\* Mutation of get_cached_analysis: the row is counted but not returned.
get_cached_analysis_NoReturn(tbl, key, ok) ==
    IF ok /\ key \in DOMAIN tbl
    THEN [tbl |-> [tbl EXCEPT ![key].hit_count = @ + 1], value |-> NONE]
    ELSE [tbl |-> tbl, value |-> NONE]

\* Mutation of get_cached_analysis: a SELECT, the counter is not touched.
get_cached_analysis_NoCount(tbl, key, ok) ==
    IF ok /\ key \in DOMAIN tbl
    THEN [tbl |-> tbl, value |-> tbl[key].final_analysis]
    ELSE [tbl |-> tbl, value |-> NONE]

\* cache_service.get_cached_analysis: UPDATE hit_count + 1 ... RETURNING.
\* Gives the table afterwards and the value returned (None on miss or error).
get_cached_analysis(tbl, key, ok) ==
    IF ok /\ key \in DOMAIN tbl
    THEN [tbl |-> [tbl EXCEPT ![key].hit_count = @ + 1],
          value |-> tbl[key].final_analysis]
    ELSE [tbl |-> tbl, value |-> NONE]

\* Whether save_to_cache logs "Cache write failed": only when the database
\* call raised; a conflict on cache_key raises nothing.  It never re-raises.
save_to_cache_error(ok) == ~ok

\* Mutation of save_to_cache: ON CONFLICT (cache_key) DO UPDATE, the last
\* writer's output replaces the row's.
save_to_cache_Upsert(tbl, key, modules, final_analysis, run_id, ok) ==
    IF ~ok THEN tbl
    ELSE IF key \in DOMAIN tbl
    THEN [tbl EXCEPT ![key].final_analysis = final_analysis, ![key].run_id = run_id]
    ELSE (key :> [selected_modules |-> modules, final_analysis |-> final_analysis,
                  run_id |-> run_id, hit_count |-> 0]) @@ tbl

\* cache_service.save_to_cache: INSERT ... ON CONFLICT (cache_key) DO NOTHING.
\* cache_key is UNIQUE in analysis_cache: the table is a function of the key;
\* hit_count defaults to 0.
save_to_cache(tbl, key, modules, final_analysis, run_id, ok) ==
    IF ok /\ key \notin DOMAIN tbl
    THEN (key :> [selected_modules |-> modules, final_analysis |-> final_analysis,
                  run_id |-> run_id, hit_count |-> 0]) @@ tbl
    ELSE tbl

\* Mutation of save_pending_review: ON CONFLICT (run_id) DO UPDATE, the row is
\* written again from the arguments.
save_pending_review_Overwrites(tbl, run_id, a, ok) ==
    IF ok
    THEN [r \in DOMAIN tbl \cup {run_id} |->
            IF r = run_id
            THEN [run_id |-> run_id,
                  risk_level |-> a.risk_level,
                  alerts |-> a.alerts,
                  validation_content |-> a.validation_content,
                  panorama_content |-> a.panorama_content,
                  lexical_content |-> a.lexical_content,
                  historical_content |-> a.historical_content,
                  intertextual_content |-> a.intertextual_content,
                  selected_modules |-> a.selected_modules,
                  model_versions |-> JsonCol(a.model_versions),
                  tokens_consumed |-> JsonCol(a.tokens_consumed),
                  reasoning_steps |-> JsonCol(a.reasoning_steps),
                  edited_content |-> NONE,
                  status |-> "pending",
                  reviewed_at |-> NONE]
            ELSE tbl[r]]
    ELSE tbl

\* hitl_service.save_pending_review: INSERT ... ON CONFLICT (run_id) DO NOTHING.
\* run_id is UNIQUE in hitl_reviews: the table is a function of run_id.
save_pending_review(tbl, run_id, a, ok) ==
    IF ok /\ run_id \notin DOMAIN tbl
    THEN (run_id :>
            [run_id |-> run_id,
             risk_level |-> a.risk_level,
             alerts |-> a.alerts,
             validation_content |-> a.validation_content,
             panorama_content |-> a.panorama_content,
             lexical_content |-> a.lexical_content,
             historical_content |-> a.historical_content,
             intertextual_content |-> a.intertextual_content,
             selected_modules |-> a.selected_modules,
             model_versions |-> JsonCol(a.model_versions),
             tokens_consumed |-> JsonCol(a.tokens_consumed),
             reasoning_steps |-> JsonCol(a.reasoning_steps),
             edited_content |-> NONE,
             status |-> "pending",
             reviewed_at |-> NONE]) @@ tbl
    ELSE tbl

\* Whether save_pending_review raises: it logs and re-raises the exception of
\* the database call; a conflict on run_id is no exception.
save_pending_review_raises(ok) == ~ok

\* What get_review returns for no row: None.
NoReview == [run_id |-> NONE]

\* hitl_service.get_review: the row as a dict, None when absent or on error.
get_review(tbl, run_id, ok) ==
    IF ok /\ run_id \in DOMAIN tbl
    THEN [tbl[run_id] EXCEPT !.model_versions = JsonLoad(@),
                             !.tokens_consumed = JsonLoad(@),
                             !.reasoning_steps = JsonLoad(@)]
    ELSE NoReview

\* Mutation of approve_review: the UPDATE has no `AND status = 'pending'`.
approve_review_NoStatusCheck(tbl, run_id, edited_content, ok) ==
    LET status == IF Truthy(edited_content) THEN "edited" ELSE "approved"
    IN  IF ~ok
        THEN [tbl |-> tbl, value |-> FALSE, log |-> "Failed to approve review"]
        ELSE IF run_id \in DOMAIN tbl
        THEN [tbl |-> [tbl EXCEPT ![run_id] =
                        IF Truthy(edited_content)
                        THEN [@ EXCEPT !.status = status,
                                       !.edited_content = edited_content,
                                       !.reviewed_at = "now"]
                        ELSE [@ EXCEPT !.status = status,
                                       !.reviewed_at = "now"]],
              value |-> TRUE, log |-> NONE]
        ELSE [tbl |-> tbl, value |-> FALSE, log |-> NONE]

\* Mutation of approve_review: the result of the UPDATE is not looked at, the
\* function returns True whenever the database call did not raise.
approve_review_IgnoresRowCount(tbl, run_id, edited_content, ok) ==
    LET status == IF Truthy(edited_content) THEN "edited" ELSE "approved"
        matches == run_id \in DOMAIN tbl /\ tbl[run_id].status = "pending"
    IN  IF ~ok
        THEN [tbl |-> tbl, value |-> FALSE, log |-> "Failed to approve review"]
        ELSE IF matches
        THEN [tbl |-> [tbl EXCEPT ![run_id] =
                        IF Truthy(edited_content)
                        THEN [@ EXCEPT !.status = status,
                                       !.edited_content = edited_content,
                                       !.reviewed_at = "now"]
                        ELSE [@ EXCEPT !.status = status,
                                       !.reviewed_at = "now"]],
              value |-> TRUE, log |-> NONE]
        ELSE [tbl |-> tbl, value |-> TRUE, log |-> NONE]

\* Mutation of approve_review: an exception of the database call is swallowed
\* and the approval reported as done.
approve_review_TrueOnError(tbl, run_id, edited_content, ok) ==
    LET status == IF Truthy(edited_content) THEN "edited" ELSE "approved"
        matches == run_id \in DOMAIN tbl /\ tbl[run_id].status = "pending"
    IN  IF ~ok
        THEN [tbl |-> tbl, value |-> TRUE, log |-> "Failed to approve review"]
        ELSE IF matches
        THEN [tbl |-> [tbl EXCEPT ![run_id] =
                        IF Truthy(edited_content)
                        THEN [@ EXCEPT !.status = status,
                                       !.edited_content = edited_content,
                                       !.reviewed_at = "now"]
                        ELSE [@ EXCEPT !.status = status,
                                       !.reviewed_at = "now"]],
              value |-> TRUE, log |-> NONE]
        ELSE [tbl |-> tbl, value |-> FALSE, log |-> NONE]

\* hitl_service.approve_review: UPDATE ... WHERE run_id = %s AND status = 'pending'
\* RETURNING run_id.  Gives the table afterwards, the boolean returned and the
\* error logged when the database call raised.
approve_review(tbl, run_id, edited_content, ok) ==
    LET status == IF Truthy(edited_content) THEN "edited" ELSE "approved"
        matches == run_id \in DOMAIN tbl /\ tbl[run_id].status = "pending"
    IN  IF ~ok
        THEN [tbl |-> tbl, value |-> FALSE, log |-> "Failed to approve review"]
        ELSE IF matches
        THEN [tbl |-> [tbl EXCEPT ![run_id] =
                        IF Truthy(edited_content)
                        THEN [@ EXCEPT !.status = status,
                                       !.edited_content = edited_content,
                                       !.reviewed_at = "now"]
                        ELSE [@ EXCEPT !.status = status,
                                       !.reviewed_at = "now"]],
              value |-> TRUE, log |-> NONE]
        ELSE [tbl |-> tbl, value |-> FALSE, log |-> NONE]

----------------------------------------------------------------------------
(* Initial state *)

NoResult == [returned |-> FALSE]

NoOutcome == [code |-> "none"]

\* The selections of the followed run: each set of modules, in one order.
RunSelections == { l \in ModuleLists : l = sorted(l, StrRank) }

\* A cache row left by an earlier run of the same request.
EarlierCacheRow(input_data) ==
    [selected_modules |-> input_data.selected_modules,
     final_analysis |-> "cached-text", run_id |-> "run-0", hit_count |-> 0]

\* The followed run has not started; nothing is stored but, maybe, a cache row
\* of the same request.
RunNotStarted ==
    /\ pc = "cache"
    /\ state = prepare_agent_state(req, RunId)
    /\ dispatched = {}
    /\ completed = <<>>
    /\ result = NoResult
    /\ audit = EmptyDict
    /\ auditErr = FALSE
    /\ notified = <<>>
    /\ execLog = <<>>
    /\ synthLog = <<>>
    /\ apc = [a \in Approvers |-> "idle"]
    /\ aedit = [a \in Approvers |-> NONE]
    /\ areview = [a \in Approvers |-> NoReview]
    /\ aout = [a \in Approvers |-> NoOutcome]
    /\ napprovals = 0

\* No worker of CacheSpec, no operation of ReviewStoreSpec.
StoresIdle ==
    /\ wreq = EmptyDict
    /\ wpc = EmptyDict
    /\ wout = EmptyDict
    /\ cacheLog = <<>>
    /\ opLog = <<>>

Init ==
    /\ req \in [book : {<<"S", "l">>}, chapter : {23}, verses : {<<1>>},
                 selected_modules : RunSelections]
    /\ RunNotStarted
    /\ cache \in { EmptyDict,
                    (generate_cache_key(req.book, req.chapter, req.verses,
                                        req.selected_modules) :> EarlierCacheRow(req)) }
    /\ reviews = EmptyDict
    /\ StoresIdle

----------------------------------------------------------------------------
(* run_analysis and the graph executor *)

Logged(by, node) == Append(execLog, [by |-> by, node |-> node])

RunArgs == SaveRunDefaults @@ [selected_modules |-> req.selected_modules]

\* cache_key of the followed run.
RunCacheKey == generate_cache_key(req.book, req.chapter, req.verses, req.selected_modules)

\* A cache call of the followed run, for the history.
CacheCall(op, ok) ==
    [op |-> op, by |-> RunId, key |-> RunCacheKey, ok |-> ok, error |-> ~ok]

\* The except block of run_analysis: audit the failure, return it.
\* Mutation of FailRun: the failure is recorded and reported, the executor
\* goes on.
FailRun_KeepsRunning(err, auditOk) ==
    /\ audit' = save_run(audit, RunId, [success |-> FALSE, error |-> err] @@ RunArgs, auditOk)
    /\ auditErr' = (auditErr \/ ~auditOk)
    /\ result' = [returned |-> TRUE, final_analysis |-> "", success |-> FALSE,
                  error |-> err, from_cache |-> FALSE, run_id |-> RunId,
                  hitl_status |-> NONE, risk_level |-> NONE,
                  model_versions |-> NoneD, tokens_consumed |-> NoneD,
                  reasoning_steps |-> NoneD]
    /\ pc' = pc

\* An exception of save_run here would leave run_analysis unhandled.
FailRun(err, auditOk) ==
    /\ audit' = save_run(audit, RunId, [success |-> FALSE, error |-> err] @@ RunArgs, auditOk)
    /\ auditErr' = (auditErr \/ ~auditOk)
    /\ result' = [returned |-> TRUE, final_analysis |-> "", success |-> FALSE,
                  error |-> IF save_run_raises(auditOk) THEN "unhandled" ELSE err,
                  from_cache |-> FALSE,
                  run_id |-> IF save_run_raises(auditOk) THEN NONE ELSE RunId,
                  hitl_status |-> NONE, risk_level |-> NONE,
                  model_versions |-> NoneD, tokens_consumed |-> NoneD,
                  reasoning_steps |-> NoneD]
    /\ pc' = "done"

\* run_analysis up to the agent execution: cache key, lookup, audited hit.
CacheCheck ==
    /\ pc = "cache"
    /\ \E ok \in BOOLEAN, auditOk \in BOOLEAN :
         LET got == get_cached_analysis(cache, RunCacheKey, ok)
         IN  /\ cache' = got.tbl
             /\ cacheLog' = Append(cacheLog, CacheCall("get_cached_analysis", ok))
             /\ IF Truthy(got.value)
                THEN /\ audit' = save_run(audit, RunId,
                                   [success |-> TRUE, final_analysis |-> got.value] @@ RunArgs,
                                   auditOk)
                     /\ auditErr' = (auditErr \/ ~auditOk)
                     /\ IF save_run_raises(auditOk)
                        THEN \* "Cache check failed, proceeding without cache"
                             /\ pc' = "router"
                             /\ result' = result
                        ELSE /\ result' = [returned |-> TRUE, final_analysis |-> got.value,
                                           success |-> TRUE, error |-> NONE,
                                           from_cache |-> TRUE,
                                           run_id |-> RunId, hitl_status |-> NONE,
                                           risk_level |-> NONE, model_versions |-> NoneD,
                                           tokens_consumed |-> NoneD,
                                           reasoning_steps |-> NoneD]
                             /\ pc' = "done"
                ELSE /\ pc' = "router"
                     /\ UNCHANGED <<audit, auditErr, result>>
    /\ UNCHANGED <<req, state, dispatched, completed, reviews, notified, execLog,
                   synthLog, approverVars, wreq, wpc, wout, opLog>>

\* graph.invoke: the conditional entry point sends the state to each selected node.
Router ==
    /\ pc = "router"
    /\ dispatched' = Range(router_function(state))
    /\ execLog' = Logged("graph", "router")
    /\ pc' = "fanout"
    /\ UNCHANGED <<req, state, completed, result, cache, audit, auditErr, reviews, notified,
                   synthLog, approverVars, storeVars>>

\* A dispatched branch node returns its update.
BranchComplete(b) ==
    /\ pc = "fanout"
    /\ b \in dispatched
    /\ b \notin Range(completed)
    /\ ~NodeRaisesAlways(b)
    /\ completed' = Append(completed, b)
    /\ execLog' = Logged("graph", b)
    /\ UNCHANGED <<req, pc, state, dispatched, result, cache, audit, auditErr, reviews, notified,
                   synthLog, approverVars, storeVars>>

\* A dispatched branch node raises (its model call fails, or the node itself
\* raises): graph.invoke raises and run_analysis reports the failure.
BranchFail(b) ==
    /\ pc = "fanout"
    /\ b \in dispatched
    /\ b \notin Range(completed)
    /\ \E auditOk \in BOOLEAN :
         FailRun(IF NodeRaisesAlways(b) THEN "AttributeError" ELSE "generation failed",
                 auditOk)
    /\ execLog' = Logged("graph", b)
    /\ UNCHANGED <<req, state, dispatched, completed, cache, reviews, notified,
                   synthLog, approverVars, storeVars>>

\* Mutation of BarrierReached: the join does not wait for the fan-out step.
BarrierReached_NoWait(sent, returned) == TRUE

\* Mutation of BarrierReached: the join is scheduled as soon as any branch returned.
BarrierReached_AnyReturned(sent, returned) == Range(returned) \cap sent # {}

\* Mutation of BarrierReached: the join waits for every analysis node of the
\* graph, dispatched or not.
BarrierReached_EveryNode(sent, returned) == BranchNodes \subseteq Range(returned)

\* The executor's superstep barrier: the next step (join) is scheduled when every
\* task of the fan-out step has returned.
BarrierReached(sent, returned) == sent \subseteq Range(returned)

RECURSIVE MergeUpdates(_, _)
MergeUpdates(st, nodes) ==
    IF nodes = <<>> THEN st
    ELSE MergeUpdates(ApplyUpdate(st, BranchUpdate(Head(nodes))), Tail(nodes))

\* Mutation of join_node: the join reports a reasoning step of its own.
join_node_Reports(st) ==
    [reasoning_steps |-> <<[node |-> "join", model |-> NONE, tokens |-> Usage]>>]

\* join_node returns the empty update.
join_node(st) == EmptyDict

\* End of the fan-out step: the branches' updates are folded into the state (in
\* the order the branches returned), then the join node runs.
JoinNode ==
    /\ pc = "fanout"
    /\ BarrierReached(dispatched, completed)
    /\ LET merged == MergeUpdates(state, completed)
       IN  state' = ApplyUpdate(merged, join_node(merged))
    /\ execLog' = Logged("graph", "join")
    /\ pc' = "validator"
    /\ UNCHANGED <<req, dispatched, completed, result, cache, audit, auditErr, reviews, notified,
                   synthLog, approverVars, storeVars>>

\* theological_validator_node returns content, risk_level and alerts.
Validator ==
    /\ pc = "validator"
    /\ \E out \in GateOutputs :
         state' = ApplyUpdate(state, theological_validator_node(out))
    /\ execLog' = Logged("graph", "theological_validator")
    /\ pc' = "edge"
    /\ UNCHANGED <<req, dispatched, completed, result, cache, audit, auditErr, reviews, notified,
                   synthLog, approverVars, storeVars>>

ValidatorFail ==
    /\ pc = "validator"
    /\ \E auditOk \in BOOLEAN : FailRun("generation failed", auditOk)
    /\ execLog' = Logged("graph", "theological_validator")
    /\ UNCHANGED <<req, state, dispatched, completed, cache, reviews, notified,
                   synthLog, approverVars, storeVars>>

Last(s) == s[Len(s)]

\* hitl_pending_node, first part: persist the review; an exception of
\* save_pending_review is logged and swallowed.
HitlSave ==
    /\ pc = "edge"
    /\ route_after_validation(state) = "hitl_pending"
    /\ \E ok \in BOOLEAN :
         reviews' = save_pending_review(reviews, Get(state, "run_id", "unknown"),
            [risk_level |-> Get(state, "risk_level", "high"),
             alerts |-> Get(Last(Get(state, "reasoning_steps", <<EmptyDict>>)), "alerts", <<>>),
             validation_content |-> Get(state, "validation_content", ""),
             selected_modules |-> Get(state, "selected_modules", {}),
             panorama_content |-> state.panorama_content,
             lexical_content |-> state.lexical_content,
             historical_content |-> state.historical_content,
             intertextual_content |-> state.intertextual_content,
             model_versions |-> Some(state.model_versions),
             tokens_consumed |-> Some(state.tokens_consumed),
             reasoning_steps |-> Some(state.reasoning_steps)], ok)
    /\ execLog' = Logged("graph", "hitl_pending")
    /\ pc' = "notify"
    /\ UNCHANGED <<req, state, dispatched, completed, result, cache, audit, auditErr, notified,
                   synthLog, approverVars, storeVars>>

\* Mutation of hitl_pending_node: the pause is reported only when the reviewer
\* was notified.
hitl_pending_node_NeedsNotification(st, sent) ==
    IF sent THEN [hitl_status |-> "pending"] ELSE EmptyDict

\* What hitl_pending_node returns; the value of send_hitl_notification is not
\* looked at.
hitl_pending_node(st, sent) == [hitl_status |-> "pending"]

\* hitl_pending_node, second part: send_hitl_notification (False when SMTP is not
\* configured or the send fails), then return hitl_status = pending.
HitlNotify ==
    /\ pc = "notify"
    /\ \E sent \in BOOLEAN :
         /\ notified' =
                     IF sent
                     THEN Append(notified,
                            [run_id |-> Get(state, "run_id", "unknown"),
                             risk_level |-> Get(state, "risk_level", "high"),
                             alerts |-> Get(Last(OrD(Some(state.reasoning_steps), <<EmptyDict>>)),
                                            "alerts", <<>>)])
                     ELSE notified
         /\ state' = ApplyUpdate(state, hitl_pending_node(state, sent))
    /\ pc' = "finish"
    /\ UNCHANGED <<req, dispatched, completed, result, cache, audit, auditErr, reviews, execLog,
                   synthLog, approverVars, storeVars>>

\* synthesizer_node as the graph's terminal node.
Synthesizer ==
    /\ pc = "edge"
    /\ route_after_validation(state) = "synthesizer"
    /\ \E content \in SynthContents :
         state' = ApplyUpdate(state, synthesizer_node(content))
    /\ synthLog' = Append(synthLog, [by |-> "graph", input |-> state, edited |-> NONE,
                                     raised |-> FALSE])
    /\ execLog' = Logged("graph", "synthesizer")
    /\ pc' = "finish"
    /\ UNCHANGED <<req, dispatched, completed, result, cache, audit, auditErr, reviews, notified,
                   approverVars, storeVars>>

SynthesizerFail ==
    /\ pc = "edge"
    /\ route_after_validation(state) = "synthesizer"
    /\ \E auditOk \in BOOLEAN : FailRun("generation failed", auditOk)
    /\ synthLog' = Append(synthLog, [by |-> "graph", input |-> state, edited |-> NONE,
                                     raised |-> TRUE])
    /\ execLog' = Logged("graph", "synthesizer")
    /\ UNCHANGED <<req, state, dispatched, completed, cache, reviews, notified,
                   approverVars, storeVars>>

\* run_analysis after graph.invoke returned: pending, no final analysis, or
\* success (cache write, audit, result).  The three save_run calls stand in the
\* try block: were one to raise, the except block would report a failed run.
FinishRun ==
    /\ pc = "finish"
    /\ \E cacheOk \in BOOLEAN, auditOk \in BOOLEAN :
         LET governance == [model_versions |-> Some(state.model_versions),
                            tokens_consumed |-> Some(state.tokens_consumed),
                            reasoning_steps |-> Some(state.reasoning_steps)]
             noFinal == "Agent completed but did not produce a final analysis."
             outcome ==
                IF state.hitl_status = "pending"
                THEN [cache |-> cache, log |-> cacheLog,
                      args |-> [success |-> TRUE, hitl_status |-> "pending",
                                risk_level |-> state.risk_level] @@ governance @@ RunArgs,
                      result |-> [returned |-> TRUE, final_analysis |-> "", success |-> TRUE,
                                  error |-> NONE, from_cache |-> FALSE, run_id |-> RunId,
                                  hitl_status |-> "pending",
                                  risk_level |-> state.risk_level] @@ governance]
                ELSE IF ~Truthy(state.final_analysis)
                THEN [cache |-> cache, log |-> cacheLog,
                      args |-> [success |-> FALSE, error |-> noFinal] @@ governance @@ RunArgs,
                      result |-> [returned |-> TRUE, final_analysis |-> "", success |-> FALSE,
                                  error |-> noFinal, from_cache |-> FALSE, run_id |-> RunId,
                                  hitl_status |-> NONE, risk_level |-> NONE,
                                  model_versions |-> Some(state.model_versions),
                                  tokens_consumed |-> Some(state.tokens_consumed),
                                  reasoning_steps |-> NoneD]]
                ELSE [cache |-> save_to_cache(cache, RunCacheKey, req.selected_modules,
                                              state.final_analysis, RunId, cacheOk),
                      log |-> Append(cacheLog, CacheCall("save_to_cache", cacheOk)),
                      args |-> [success |-> TRUE, final_analysis |-> state.final_analysis,
                                risk_level |-> state.risk_level,
                                hitl_status |-> state.hitl_status] @@ governance @@ RunArgs,
                      result |-> [returned |-> TRUE, final_analysis |-> state.final_analysis,
                                  success |-> TRUE, error |-> NONE, from_cache |-> FALSE,
                                  run_id |-> RunId, hitl_status |-> state.hitl_status,
                                  risk_level |-> state.risk_level] @@ governance]
         IN  /\ cache' = outcome.cache
             /\ cacheLog' = outcome.log
             /\ IF save_run_raises(auditOk)
                THEN \E againOk \in BOOLEAN : FailRun("audit write failed", againOk)
                ELSE /\ audit' = save_run(audit, RunId, outcome.args, auditOk)
                     /\ auditErr' = (auditErr \/ ~auditOk)
                     /\ result' = outcome.result
                     /\ pc' = "done"
    /\ UNCHANGED <<req, state, dispatched, completed, reviews, notified, execLog,
                   synthLog, approverVars, wreq, wpc, wout, opLog>>

----------------------------------------------------------------------------
(* hitl_controller.py: POST /hitl/{run_id}/approve *)

\* An HTTPException; `log` is the error approve_review logged, if any.
Rejected(code, detail, log) == [code |-> code, detail |-> detail, log |-> log]

\* The handler's locals (edited_content, review) end with the request.
HandlerReturns(a) ==
    /\ aedit' = [aedit EXCEPT ![a] = NONE]
    /\ areview' = [areview EXCEPT ![a] = NoReview]

\* approve_and_synthesize up to the call of approve_review: load the review,
\* 404 when there is none, 400 when it is not pending.
ReceiveApproval(a, edited) ==
    /\ apc[a] \in {"idle", "done"}
    /\ napprovals < MaxApprovals
    /\ napprovals' = napprovals + 1
    /\ \E ok \in BOOLEAN :
         LET review == get_review(reviews, RunId, ok)
         IN  IF review = NoReview
             THEN /\ apc' = [apc EXCEPT ![a] = "done"]
                  /\ aout' = [aout EXCEPT ![a] = Rejected("404", "No HITL review found", NONE)]
                  /\ UNCHANGED <<aedit, areview>>
             ELSE IF review.status # "pending"
             THEN /\ apc' = [apc EXCEPT ![a] = "done"]
                  /\ aout' = [aout EXCEPT ![a] = Rejected("400", "Review already processed", NONE)]
                  /\ UNCHANGED <<aedit, areview>>
             ELSE /\ apc' = [apc EXCEPT ![a] = "approve"]
                  /\ aout' = [aout EXCEPT ![a] = NoOutcome]
                  /\ aedit' = [aedit EXCEPT ![a] = edited]
                  /\ areview' = [areview EXCEPT ![a] = review]
    /\ UNCHANGED <<storeVars, runVars, cache, audit, auditErr, reviews, notified, execLog, synthLog>>

\* approve_and_synthesize: approve_review, 500 when it returns False.
ApproveStep(a) ==
    /\ apc[a] = "approve"
    /\ \E ok \in BOOLEAN :
         LET done == approve_review(reviews, RunId, aedit[a], ok)
         IN  /\ reviews' = done.tbl
             /\ IF done.value
                THEN /\ apc' = [apc EXCEPT ![a] = "synth"]
                     /\ UNCHANGED <<aout, aedit, areview>>
                ELSE /\ apc' = [apc EXCEPT ![a] = "done"]
                     /\ aout' = [aout EXCEPT ![a] =
                                   Rejected("500", "Failed to approve the review.", done.log)]
                     /\ HandlerReturns(a)
    /\ UNCHANGED <<storeVars, runVars, cache, audit, auditErr, notified, execLog, synthLog, napprovals>>

\* Mutation of ResumeState: the panorama slot is read from the wrong column.
ResumeState_WrongSlot(review, edited_content) ==
    [selected_modules |-> Get(review, "selected_modules", {}),
     panorama_content |-> Get(review, "lexical_content", NONE),
     lexical_content |-> Get(review, "lexical_content", NONE),
     historical_content |-> Get(review, "historical_content", NONE),
     intertextual_content |-> Get(review, "intertextual_content", NONE),
     validation_content |-> Or(edited_content, Get(review, "validation_content", "")),
     final_analysis |-> NONE,
     run_id |-> review.run_id,
     model_versions |-> OrD(Get(review, "model_versions", NoneD), EmptyDict),
     tokens_consumed |-> OrD(Get(review, "tokens_consumed", NoneD), EmptyDict),
     reasoning_steps |-> OrD(Get(review, "reasoning_steps", NoneD), <<>>),
     risk_level |-> Get(review, "risk_level", NONE),
     hitl_status |-> IF Truthy(edited_content) THEN "edited" ELSE "approved"]

\* _run_synthesis_from_review: the state rebuilt from the loaded review.
ResumeState(review, edited_content) ==
    [selected_modules |-> Get(review, "selected_modules", {}),
     panorama_content |-> Get(review, "panorama_content", NONE),
     lexical_content |-> Get(review, "lexical_content", NONE),
     historical_content |-> Get(review, "historical_content", NONE),
     intertextual_content |-> Get(review, "intertextual_content", NONE),
     validation_content |-> Or(edited_content, Get(review, "validation_content", "")),
     final_analysis |-> NONE,
     run_id |-> review.run_id,
     model_versions |-> OrD(Get(review, "model_versions", NoneD), EmptyDict),
     tokens_consumed |-> OrD(Get(review, "tokens_consumed", NoneD), EmptyDict),
     reasoning_steps |-> OrD(Get(review, "reasoning_steps", NoneD), <<>>),
     risk_level |-> Get(review, "risk_level", NONE),
     hitl_status |-> IF Truthy(edited_content) THEN "edited" ELSE "approved"]

\* _run_synthesis_from_review with a synthesizer that returns: audit, response.
ResumeSynthesis(a) ==
    /\ apc[a] = "synth"
    /\ \E content \in SynthContents, auditOk \in BOOLEAN :
         LET review == areview[a]
             st == ResumeState(review, aedit[a])
             res == synthesizer_node(content)
             final_analysis == Get(res, "final_analysis", "")
             hitl_status == IF Truthy(aedit[a]) THEN "edited" ELSE "approved"
         IN  /\ synthLog' = Append(synthLog, [by |-> a, input |-> st, edited |-> aedit[a],
                                               raised |-> FALSE])
             /\ auditErr' = (auditErr \/ ~auditOk)
             /\ audit' = save_run(audit, review.run_id,
                           [selected_modules |-> Get(review, "selected_modules", {}),
                            success |-> TRUE,
                            final_analysis |-> final_analysis,
                            hitl_status |-> hitl_status,
                            risk_level |-> Get(review, "risk_level", NONE),
                            model_versions |-> Some(res.model_versions),
                            tokens_consumed |-> Some(res.tokens_consumed),
                            reasoning_steps |-> Some(res.reasoning_steps)]
                           @@ SaveRunDefaults,
                           auditOk)
             /\ aout' = [aout EXCEPT ![a] =
                           IF save_run_raises(auditOk)
                           THEN Rejected("500", "Synthesis failed", NONE)
                           ELSE [code |-> "200",
                                 final_analysis |-> final_analysis,
                                 from_cache |-> FALSE,
                                 run_id |-> review.run_id,
                                 tokens_consumed |-> Some(res.tokens_consumed),
                                 model_versions |-> Some(res.model_versions),
                                 risk_level |-> Get(review, "risk_level", NONE),
                                 hitl_status |-> hitl_status]]
    /\ execLog' = Logged(a, "synthesizer")
    /\ apc' = [apc EXCEPT ![a] = "done"]
    /\ HandlerReturns(a)
    /\ UNCHANGED <<storeVars, runVars, cache, reviews, notified, napprovals>>

\* _run_synthesis_from_review with a synthesizer that raises: HTTP 500, no audit.
ResumeSynthesisFail(a) ==
    /\ apc[a] = "synth"
    /\ synthLog' = Append(synthLog, [by |-> a, input |-> ResumeState(areview[a], aedit[a]),
                                     edited |-> aedit[a], raised |-> TRUE])
    /\ execLog' = Logged(a, "synthesizer")
    /\ aout' = [aout EXCEPT ![a] = Rejected("500", "Synthesis failed", NONE)]
    /\ apc' = [apc EXCEPT ![a] = "done"]
    /\ HandlerReturns(a)
    /\ UNCHANGED <<storeVars, runVars, cache, audit, auditErr, reviews, notified, napprovals>>

----------------------------------------------------------------------------
(* Specification of the followed run and its approvals *)

Next ==
    \/ CacheCheck
    \/ Router
    \/ \E b \in BranchNodes : BranchComplete(b)
    \/ \E b \in BranchNodes : BranchFail(b)
    \/ JoinNode
    \/ Validator
    \/ ValidatorFail
    \/ HitlSave
    \/ HitlNotify
    \/ Synthesizer
    \/ SynthesizerFail
    \/ FinishRun
    \/ \E a \in Approvers, edited \in Edits : ReceiveApproval(a, edited)
    \/ \E a \in Approvers : ApproveStep(a)
    \/ \E a \in Approvers : ResumeSynthesis(a)
    \/ \E a \in Approvers : ResumeSynthesisFail(a)

Spec == Init /\ [][Next]_vars

\* The steps of the followed run_analysis call.  Each of them ends when the
\* external call it waits for (store, generation, notifier) returns or fails.
RunStep ==
    \/ CacheCheck
    \/ Router
    \/ \E b \in BranchNodes : BranchComplete(b)
    \/ \E b \in BranchNodes : BranchFail(b)
    \/ JoinNode
    \/ Validator
    \/ ValidatorFail
    \/ HitlSave
    \/ HitlNotify
    \/ Synthesizer
    \/ SynthesizerFail
    \/ FinishRun

\* The run under the assumption that every external call eventually returns or
\* fails: a step of the run that stays possible is eventually taken.  Nothing
\* is assumed about the approval requests.
LiveSpec == Init /\ [][Next]_vars /\ WF_vars(RunStep)

----------------------------------------------------------------------------
(* CacheSpec: concurrent run_analysis calls, each followed through its cache *)
(* key, its lookup, the graph run taken as one step, its cache write and    *)
(* its audit.  KeySpec: two calls up to their cache key, over more inputs.   *)

CacheWorkers == {"w1", "w2", "w3"}

KeyCallers == {"a", "b"}

\* Largest verse number of the requests of KeySpec.
MaxVerse == 2

\* Lists of verses validate_verses lets through: not empty, no duplicates.
VerseLists ==
    { l \in UNION { [1..n -> 1..MaxVerse] : n \in 1..MaxVerse } :
        \A i, j \in DOMAIN l : i # j => l[i] # l[j] }

\* Book abbreviations as run_analysis may receive them.
Books == { <<"S", "l">>, <<"s", "l">>, <<" ", "S", "L", " ">>, <<"G", "n">> }

KeyInputs ==
    [book : Books, chapter : {1, 2}, verses : VerseLists,
     selected_modules : { l \in ModuleLists :
                            l # <<>> /\ Range(l) \subseteq {"panorama", "exegese"} }]

\* The requests of CacheSpec: one logical request in two orders, and another.
CacheRequests ==
    { [book |-> <<"S", "l">>, chapter |-> 23, verses |-> <<1, 2>>,
       selected_modules |-> <<"panorama", "exegese">>],
      [book |-> <<"S", "l">>, chapter |-> 23, verses |-> <<2, 1>>,
       selected_modules |-> <<"exegese", "panorama">>],
      [book |-> <<"S", "l">>, chapter |-> 23, verses |-> <<1>>,
       selected_modules |-> <<"panorama", "exegese">>] }

\* The final analysis each worker's graph run produces.
WorkerText == [w1 |-> "final-text-w1", w2 |-> "final-text-w2", w3 |-> "final-text-w3"]

\* uuid4 gives each call its own run_id; the worker's name stands for it.
WorkerRunId(w) == w

NoWorkerResult ==
    [cache_key |-> NoneD, returned |-> FALSE, from_cache |-> FALSE, final_analysis |-> NONE]

WorkerArgs(w) == SaveRunDefaults @@ [selected_modules |-> wreq[w].selected_modules]

\* The variables of the followed run, its approvals and the review store rest.
RunIdle ==
    /\ req = [book |-> <<"S", "l">>, chapter |-> 23, verses |-> <<1>>,
              selected_modules |-> <<"panorama">>]
    /\ RunNotStarted
    /\ reviews = EmptyDict
    /\ opLog = <<>>

CacheInit ==
    /\ RunIdle
    /\ cache = EmptyDict
    /\ wreq \in [CacheWorkers -> CacheRequests]
    /\ wpc = [w \in CacheWorkers |-> "start"]
    /\ wout = [w \in CacheWorkers |-> NoWorkerResult]
    /\ cacheLog = <<>>

KeyInit ==
    /\ RunIdle
    /\ cache = EmptyDict
    /\ wreq \in [KeyCallers -> KeyInputs]
    /\ wpc = [w \in KeyCallers |-> "start"]
    /\ wout = [w \in KeyCallers |-> NoWorkerResult]
    /\ cacheLog = <<>>

idleVars == <<runVars, approverVars, reviews, notified, execLog, synthLog, opLog, wreq>>

\* run_analysis: cache_key = generate_cache_key(...)
WorkerKey(w) ==
    /\ wpc[w] = "start"
    /\ wout' = [wout EXCEPT ![w].cache_key =
                   Some(generate_cache_key(wreq[w].book, wreq[w].chapter, wreq[w].verses,
                                           wreq[w].selected_modules))]
    /\ wpc' = [wpc EXCEPT ![w] = "cache"]
    /\ UNCHANGED <<idleVars, cache, audit, auditErr, cacheLog>>

\* run_analysis: the cache check; a hit is audited and returned.
WorkerLookup(w) ==
    /\ wpc[w] = "cache"
    /\ \E ok \in BOOLEAN, auditOk \in BOOLEAN :
         LET got == get_cached_analysis(cache, wout[w].cache_key.v, ok)
         IN  /\ cache' = got.tbl
             /\ IF Truthy(got.value)
                THEN /\ audit' = save_run(audit, WorkerRunId(w),
                                   [success |-> TRUE, final_analysis |-> got.value]
                                   @@ WorkerArgs(w), auditOk)
                     /\ auditErr' = (auditErr \/ ~auditOk)
                     /\ wout' = [wout EXCEPT ![w].returned = TRUE,
                                             ![w].from_cache = TRUE,
                                             ![w].final_analysis = got.value]
                     /\ wpc' = [wpc EXCEPT ![w] = "done"]
                ELSE /\ wpc' = [wpc EXCEPT ![w] = "run"]
                     /\ UNCHANGED <<audit, auditErr, wout>>
    /\ UNCHANGED <<idleVars, cacheLog>>

\* run_analysis: graph.invoke, taken as one step that ends with a final
\* analysis; the run's other endings write no cache row.
WorkerExecute(w) ==
    /\ wpc[w] = "run"
    /\ wout' = [wout EXCEPT ![w].final_analysis = WorkerText[w]]
    /\ wpc' = [wpc EXCEPT ![w] = "write"]
    /\ UNCHANGED <<idleVars, cache, audit, auditErr, cacheLog>>

\* run_analysis: save_to_cache, save_run, return.
WorkerWrite(w) ==
    /\ wpc[w] = "write"
    /\ \E cacheOk \in BOOLEAN, auditOk \in BOOLEAN :
         /\ cache' = save_to_cache(cache, wout[w].cache_key.v, wreq[w].selected_modules,
                                   wout[w].final_analysis, WorkerRunId(w), cacheOk)
         /\ cacheLog' = Append(cacheLog, [op |-> "save_to_cache", by |-> w,
                                           key |-> wout[w].cache_key.v, ok |-> cacheOk,
                                           error |-> save_to_cache_error(cacheOk)])
         /\ audit' = save_run(audit, WorkerRunId(w),
                         [success |-> TRUE, final_analysis |-> wout[w].final_analysis]
                         @@ WorkerArgs(w), auditOk)
         /\ auditErr' = (auditErr \/ ~auditOk)
    /\ wout' = [wout EXCEPT ![w].returned = TRUE]
    /\ wpc' = [wpc EXCEPT ![w] = "done"]
    /\ UNCHANGED idleVars

CacheNext ==
    \/ \E w \in DOMAIN wreq : WorkerKey(w)
    \/ \E w \in DOMAIN wreq : WorkerLookup(w)
    \/ \E w \in DOMAIN wreq : WorkerExecute(w)
    \/ \E w \in DOMAIN wreq : WorkerWrite(w)

CacheSpec == CacheInit /\ [][CacheNext]_vars

KeyNext == \E w \in DOMAIN wreq : WorkerKey(w)

KeySpec == KeyInit /\ [][KeyNext]_vars

----------------------------------------------------------------------------
(* ReviewStoreSpec: the operations of hitl_service on hitl_reviews, and the *)
(* resumed synthesis on a loaded review, called in any order for the        *)
(* run_ids of ReviewRunIds.                                                 *)

\* Number of calls over a behaviour.
MaxOps == 3

ReviewRunIds == {"run-1", "run-2"}

\* validation_content of a paused run.
ReviewTexts == {"validation-text", "other-text"}

\* edited_content of an approval.
ReviewEdits == {NONE, "edit-1"}

\* The arguments hitl_pending_node passes for a paused run with this validation.
PendingArgs(text) ==
    [risk_level |-> "high",
     alerts |-> <<"alert">>,
     validation_content |-> text,
     selected_modules |-> {"panorama"},
     panorama_content |-> NodeContent("panorama_agent"),
     lexical_content |-> NONE,
     historical_content |-> NONE,
     intertextual_content |-> NodeContent("intertextual_agent"),
     model_versions |-> Some(("theological_validator" :> ModelTier.TOP)),
     tokens_consumed |-> Some(("theological_validator" :> Usage)),
     reasoning_steps |-> NoneD]

Called(op, run_id, ok, out) ==
    Append(opLog, [op |-> op, run_id |-> run_id, ok |-> ok, out |-> out])

ReviewStoreInit ==
    /\ RunIdle
    /\ cache = EmptyDict
    /\ wreq = EmptyDict
    /\ wpc = EmptyDict
    /\ wout = EmptyDict
    /\ cacheLog = <<>>

\* save_pending_review(run_id, ...), for a run_id with or without a row.
OpPersist(run_id, text) ==
    /\ Len(opLog) < MaxOps
    /\ \E ok \in BOOLEAN :
         /\ reviews' = save_pending_review(reviews, run_id, PendingArgs(text), ok)
         /\ opLog' = Called("save_pending_review", run_id, ok,
                            save_pending_review_raises(ok))
    /\ UNCHANGED <<runVars, approverVars, cache, audit, auditErr, notified, execLog,
                   synthLog, wreq, wpc, wout, cacheLog>>

\* approve_review(run_id, edited_content)
OpApprove(run_id, edited) ==
    /\ Len(opLog) < MaxOps
    /\ \E ok \in BOOLEAN :
         LET done == approve_review(reviews, run_id, edited, ok)
         IN  /\ reviews' = done.tbl
             /\ opLog' = Called("approve_review", run_id, ok, done.value)
    /\ UNCHANGED <<runVars, approverVars, cache, audit, auditErr, notified, execLog,
                   synthLog, wreq, wpc, wout, cacheLog>>

\* get_review(run_id), then _run_synthesis_from_review on the loaded review.
OpResume(run_id, edited) ==
    /\ Len(opLog) < MaxOps
    /\ \E ok \in BOOLEAN, auditOk \in BOOLEAN, content \in SynthContents :
         LET review == get_review(reviews, run_id, ok)
             st == ResumeState(review, edited)
             res == synthesizer_node(content)
         IN  /\ review # NoReview
             /\ synthLog' = Append(synthLog, [by |-> "resume", input |-> st,
                                               edited |-> edited, raised |-> FALSE])
             /\ audit' = save_run(audit, review.run_id,
                           [selected_modules |-> Get(review, "selected_modules", {}),
                            success |-> TRUE,
                            final_analysis |-> Get(res, "final_analysis", ""),
                            hitl_status |-> st.hitl_status,
                            risk_level |-> Get(review, "risk_level", NONE),
                            model_versions |-> Some(res.model_versions),
                            tokens_consumed |-> Some(res.tokens_consumed),
                            reasoning_steps |-> Some(res.reasoning_steps)]
                           @@ SaveRunDefaults,
                           auditOk)
             /\ auditErr' = (auditErr \/ ~auditOk)
             /\ opLog' = Called("resume", run_id, auditOk, save_run_raises(auditOk))
    /\ UNCHANGED <<runVars, approverVars, cache, reviews, notified, execLog,
                   wreq, wpc, wout, cacheLog>>

ReviewStoreNext ==
    \/ \E r \in ReviewRunIds, text \in ReviewTexts : OpPersist(r, text)
    \/ \E r \in ReviewRunIds, edited \in ReviewEdits : OpApprove(r, edited)
    \/ \E r \in ReviewRunIds, edited \in ReviewEdits : OpResume(r, edited)

ReviewStoreSpec == ReviewStoreInit /\ [][ReviewStoreNext]_vars

----------------------------------------------------------------------------
(* ReducerSpec: the executor's merge of one fan-out step on its own.  Two    *)
(* mergers fold the updates of the same branch nodes into the same state,    *)
(* each in an order of its own.                                              *)

Mergers == {"m1", "m2"}

\* The three fields of TheologicalState annotated with a reducer.
Accumulators == AccumulatorDicts \cup {"reasoning_steps"}

\* What _build_node_result returns for a branch node given this model name.
Contribution(node_name, model_name) ==
    (OutputField(node_name) :> NodeContent(node_name)) @@
    [model_versions |-> (node_name :> model_name),
     tokens_consumed |-> (node_name :> Usage),
     reasoning_steps |-> <<[node |-> node_name, model |-> model_name, tokens |-> Usage]>>]

\* The fan-outs of the router, over every selection of modules.
FanOuts ==
    { Range(router_function([selected_modules |-> { MODULE_MAPPING[m] : m \in Range(l) }])) :
        l \in ModuleLists }

ReducerInit ==
    /\ RunIdle
    /\ cache = EmptyDict
    /\ cacheLog = <<>>
    /\ \E sent \in FanOuts :
         wreq = [m \in Mergers |-> [b \in sent |-> Contribution(b, ModelTier.LITE)]]
    /\ wpc = [m \in Mergers |-> <<>>]
    /\ wout = [m \in Mergers |-> prepare_agent_state(req, RunId)]

\* The merger folds the update of one more branch into its state.
MergeBranch(m, b) ==
    /\ b \in DOMAIN wreq[m]
    /\ b \notin Range(wpc[m])
    /\ wout' = [wout EXCEPT ![m] = ApplyUpdate(@, wreq[m][b])]
    /\ wpc' = [wpc EXCEPT ![m] = Append(@, b)]
    /\ UNCHANGED <<idleVars, cache, audit, auditErr, cacheLog>>

ReducerNext == \E m \in Mergers, b \in BranchNodes : MergeBranch(m, b)

ReducerSpec == ReducerInit /\ [][ReducerNext]_vars

----------------------------------------------------------------------------
(* MergeSpec: _merge_dicts on its own, called on three operands a, b, c: the *)
(* calls (a, b), (b, a), (b, c), then ((a, b), c) and (a, (b, c)).           *)

MergeKeys == {"panorama_agent", "synthesizer"}

MergeValues == {ModelTier.LITE, ModelTier.TOP}

\* The operands: None, or a dict over some of the keys (the empty one included).
MergeOperands ==
    {NoneD} \cup { Some(d) : d \in UNION { [ks -> MergeValues] : ks \in SUBSET MergeKeys } }

MergeInit ==
    /\ RunIdle
    /\ cache = EmptyDict
    /\ cacheLog = <<>>
    /\ wreq \in [{"a", "b", "c"} -> MergeOperands]
    /\ wpc = EmptyDict
    /\ wout = EmptyDict

\* One call of the reducer on two operands.
MergePair(x, y) ==
    /\ (x \o y) \notin DOMAIN wout
    /\ wout' = ((x \o y) :> _merge_dicts(wreq[x], wreq[y])) @@ wout
    /\ UNCHANGED <<idleVars, cache, audit, auditErr, cacheLog, wpc>>

\* The result of (a, b) merged with c.
MergeLeftFirst ==
    /\ "ab" \in DOMAIN wout
    /\ "ab_c" \notin DOMAIN wout
    /\ wout' = ("ab_c" :> _merge_dicts(Some(wout["ab"]), wreq["c"])) @@ wout
    /\ UNCHANGED <<idleVars, cache, audit, auditErr, cacheLog, wpc>>

\* a merged with the result of (b, c).
MergeRightFirst ==
    /\ "bc" \in DOMAIN wout
    /\ "a_bc" \notin DOMAIN wout
    /\ wout' = ("a_bc" :> _merge_dicts(wreq["a"], Some(wout["bc"]))) @@ wout
    /\ UNCHANGED <<idleVars, cache, audit, auditErr, cacheLog, wpc>>

MergeNext ==
    \/ \E p \in {<<"a", "b">>, <<"b", "a">>, <<"b", "c">>} : MergePair(p[1], p[2])
    \/ MergeLeftFirst
    \/ MergeRightFirst

MergeSpec == MergeInit /\ [][MergeNext]_vars

----------------------------------------------------------------------------
(* EdgeSpec: the gate and the conditional edge on their own.  The state that *)
(* left the barrier is drawn with risk_level unset (None, as                 *)
(* prepare_agent_state leaves it) or absent; the edge function is applied to *)
(* it as it is, or after the gate wrote the risk level of its response.      *)

\* ValidatorOutput.risk_level is any str the model returns.
EdgeRisks == {"low", "medium", "high", "HIGH", "critical", ""}

\* The parsed response of the validator model: an object that has, or has not,
\* the attributes risk_level and alerts.
EdgeResponses ==
    [risk_level : EdgeRisks, alerts : {<<>>, <<"alert">>}]
    \cup [risk_level : EdgeRisks] \cup [alerts : {<<>>, <<"alert">>}] \cup {EmptyDict}

\* theological_validator_node on a parsed response: getattr with its defaults.
ValidatorUpdate(response) ==
    theological_validator_node([risk_level |-> Get(response, "risk_level", "low"),
                                alerts |-> Get(response, "alerts", <<>>)])

Without(d, k) == [f \in DOMAIN d \ {k} |-> d[f]]

\* The states that leave the barrier of the request of RunIdle, in both orders
\* of completion, with risk_level None or without the key.
EdgeStates ==
    LET merged == { MergeUpdates(prepare_agent_state(req, RunId), order) :
                      order \in { <<"intertextual_agent", "panorama_agent">>,
                                  <<"panorama_agent", "intertextual_agent">> } }
    IN  merged \cup { Without(st, "risk_level") : st \in merged }

EdgeInit ==
    /\ RunIdle
    /\ cache = EmptyDict
    /\ cacheLog = <<>>
    /\ wreq \in EdgeStates
    /\ wout = wreq
    /\ wpc = <<>>

\* The gate runs on the state that left the barrier.
EdgeGate ==
    /\ wpc = <<>>
    /\ \E response \in EdgeResponses : wout' = ApplyUpdate(wout, ValidatorUpdate(response))
    /\ wpc' = <<"theological_validator">>
    /\ UNCHANGED <<idleVars, cache, audit, auditErr, cacheLog>>

\* The edge function is applied to the current state; its value is recorded.
EdgeRoute ==
    /\ \A i \in DOMAIN wpc : wpc[i] = "theological_validator"
    /\ wpc' = Append(wpc, route_after_validation(wout))
    /\ UNCHANGED <<idleVars, cache, audit, auditErr, cacheLog, wout>>

EdgeNext == EdgeGate \/ EdgeRoute

EdgeSpec == EdgeInit /\ [][EdgeNext]_vars

----------------------------------------------------------------------------
(* PoolSpec: database/connection.py.  Request threads (run_in_threadpool)   *)
(* call get_pool; the shutdown hook calls close_pool.  The module global    *)
(* _pool is read and written without a lock, so each read and each write is  *)
(* a step of its own.  wout holds the global, wpc each caller's position,    *)
(* wreq each thread's calls and the pool its last call returned, opLog the   *)
(* ConnectionPool objects created and closed, in order.                      *)

PoolThreads == {"t1", "t2"}

\* get_pool calls of one thread.
MaxGetPool == 2

\* close_pool calls over a behaviour.
MaxClosePool == 2

PoolEvents(op) == { i \in DOMAIN opLog : opLog[i].op = op }

\* The ConnectionPool objects, in the order of their construction.
PoolObjects == <<"pool-1", "pool-2", "pool-3", "pool-4", "pool-5", "pool-6", "pool-7", "pool-8">>

PoolInit ==
    /\ RunIdle
    /\ cache = EmptyDict
    /\ cacheLog = <<>>
    /\ wout = [_pool |-> NONE]
    /\ wpc = [t \in PoolThreads \cup {"main"} |-> "idle"]
    /\ wreq = [t \in PoolThreads |-> [calls |-> 0, got |-> NONE]]

poolIdle == <<runVars, approverVars, reviews, notified, execLog, synthLog,
              cache, audit, auditErr, cacheLog>>

\* get_pool: `if _pool is None`.
GetPoolCheck(t) ==
    /\ wpc[t] = "idle"
    /\ wreq[t].calls < MaxGetPool
    /\ wreq' = [wreq EXCEPT ![t].calls = @ + 1]
    /\ wpc' = [wpc EXCEPT ![t] = IF wout._pool = NONE THEN "create" ELSE "return"]
    /\ UNCHANGED <<poolIdle, wout, opLog>>

\* get_pool: `_pool = ConnectionPool(...)`; the constructor opens the pool and
\* may raise, which ends the call with _pool as it was.
GetPoolCreate(t) ==
    /\ wpc[t] = "create"
    /\ \E ok \in BOOLEAN :
         IF ok
         THEN LET new == PoolObjects[Cardinality(PoolEvents("create")) + 1]
              IN  /\ wout' = [wout EXCEPT !._pool = new]
                  /\ opLog' = Append(opLog, [op |-> "create", by |-> t, pool |-> new])
                  /\ wpc' = [wpc EXCEPT ![t] = "return"]
                  /\ wreq' = wreq
         ELSE /\ wpc' = [wpc EXCEPT ![t] = "idle"]
              /\ wreq' = [wreq EXCEPT ![t].got = NONE]
              /\ UNCHANGED <<wout, opLog>>
    /\ UNCHANGED poolIdle

\* get_pool: `return _pool`.
GetPoolReturn(t) ==
    /\ wpc[t] = "return"
    /\ wreq' = [wreq EXCEPT ![t].got = wout._pool]
    /\ wpc' = [wpc EXCEPT ![t] = "idle"]
    /\ UNCHANGED <<poolIdle, wout, opLog>>

\* close_pool: `if _pool is not None: _pool.close()`.
ClosePoolClose ==
    /\ wpc["main"] = "idle"
    /\ Cardinality(PoolEvents("close_pool")) < MaxClosePool
    /\ opLog' = Append(opLog, [op |-> "close_pool", by |-> "main", pool |-> wout._pool])
    /\ wpc' = [wpc EXCEPT !["main"] = IF wout._pool = NONE THEN "idle" ELSE "reset"]
    /\ UNCHANGED <<poolIdle, wout, wreq>>

\* close_pool: `_pool = None`.
ClosePoolReset ==
    /\ wpc["main"] = "reset"
    /\ wout' = [wout EXCEPT !._pool = NONE]
    /\ wpc' = [wpc EXCEPT !["main"] = "idle"]
    /\ UNCHANGED <<poolIdle, wreq, opLog>>

PoolNext ==
    \/ \E t \in PoolThreads : GetPoolCheck(t)
    \/ \E t \in PoolThreads : GetPoolCreate(t)
    \/ \E t \in PoolThreads : GetPoolReturn(t)
    \/ ClosePoolClose
    \/ ClosePoolReset

PoolSpec == PoolInit /\ [][PoolNext]_vars

----------------------------------------------------------------------------
(* Vocabulary of the properties *)

\* The nodes that ran so far, by who ran them.
Ran(by, node) == \E i \in DOMAIN execLog : execLog[i].by = by /\ execLog[i].node = node

TimesRan(node) == Cardinality({ i \in DOMAIN execLog : execLog[i].node = node })

GateStarted == Ran("graph", "theological_validator")

HasReview == RunId \in DOMAIN reviews

ReviewStatus == IF HasReview THEN reviews[RunId].status ELSE NONE

\* The approval requests whose approve_review returned True: the handlers about
\* to resume, and the resumed synthesizer calls.
ResumedCalls == { i \in DOMAIN synthLog : synthLog[i].by \in Approvers }

AcceptedCount == Cardinality({ a \in Approvers : apc[a] = "synth" }) + Cardinality(ResumedCalls)

\* The edited_content of the accepted requests.
AcceptedEdits ==
    { aedit[a] : a \in { h \in Approvers : apc[h] = "synth" } }
    \cup { synthLog[i].edited : i \in ResumedCalls }

----------------------------------------------------------------------------
(* C1: for every selection of optional steps, the gate (theological_validator)
   is scheduled and starts only when every dispatched branch, the selected ones
   and the always-run intertextual step, has returned and its update is merged
   in the state, whatever the order in which the branches returned. *)
C1_BarrierBeforeGate ==
    (pc = "validator" \/ GateStarted) =>
        /\ "intertextual_agent" \in dispatched
        /\ Cardinality(dispatched) = Len(req.selected_modules) + 1
        /\ Len(completed) = Cardinality(dispatched)
        /\ \A b \in dispatched :
             /\ b \in Range(completed)
             /\ state[OutputField(b)] = NodeContent(b)
             /\ b \in DOMAIN state.model_versions
             /\ b \in DOMAIN state.tokens_consumed
             /\ \E i \in DOMAIN state.reasoning_steps : state.reasoning_steps[i].node = b

\* The gate ran after two branches, the always-run step having returned first.
C1_Witness ==
    /\ GateStarted
    /\ completed = <<"intertextual_agent", "panorama_agent">>

(* C2: in a run whose gate assigned risk_level = high the synthesizer is never
   executed by the graph, and is executed at all only once the review of the
   run has left 'pending'; the initial execution ends at the pause node with
   hitl_status = pending. *)
C2_NoSynthesisBeforeApproval ==
    state.risk_level = "high" =>
        /\ ~Ran("graph", "synthesizer")
        /\ \A i \in DOMAIN synthLog : synthLog[i].by # "graph"
        /\ synthLog # <<>> => ReviewStatus \in {"approved", "edited"}
        /\ pc = "done" => /\ Ran("graph", "hitl_pending")
                          /\ result.hitl_status = "pending"
                          /\ state.final_analysis = NONE

\* A high-risk run was synthesized after an approval.
C2_Witness ==
    /\ state.risk_level = "high"
    /\ pc = "done"
    /\ Len(synthLog) = 1

(* C3: of the approval requests for one pending run_id, whatever the
   interleaving, at most one performs the transition pending -> approved/edited;
   a request that reached the update without a database error and was rejected
   lost to the one that was accepted; the review then carries the status and the
   edited_content of the accepted request. *)
C3_OneTransition ==
    /\ AcceptedCount <= 1
    /\ \A a \in Approvers :
         (aout[a].code = "500" /\ aout[a].detail = "Failed to approve the review."
            /\ aout[a].log = NONE)
         => AcceptedCount = 1
    /\ ReviewStatus \in {"approved", "edited"} <=> AcceptedCount = 1
    /\ \A e \in AcceptedEdits :
         IF Truthy(e)
         THEN ReviewStatus = "edited" /\ reviews[RunId].edited_content = e
         ELSE ReviewStatus = "approved" /\ reviews[RunId].edited_content = NONE

\* Two concurrent requests with different payloads: one accepted, one rejected.
C3_Witness ==
    /\ apc["h1"] = "synth"
    /\ aedit["h1"] = "edit-1"
    /\ aout["h2"].code = "500"
    /\ aout["h2"].log = NONE
    /\ reviews[RunId].edited_content = "edit-1"

(* C4: over the whole life of a run_id, initial execution and any approval
   requests, the synthesizer node is invoked at most once. *)
C4_SynthesisAtMostOnce == Len(synthLog) <= 1

\* The synthesizer ran for an approval and a later request was turned down.
C4_Witness ==
    /\ Len(synthLog) = 1
    /\ synthLog[1].by \in Approvers
    /\ \E a \in Approvers : aout[a].code = "400"

(* C5 as stated: every run that executed the graph without a node raising ends
   with hitl_status = pending and no final output when risk_level = high, and
   with a non-empty final output and hitl_status unset when risk_level is low
   or medium. *)
NodeFailed == result.returned /\ result.error \in {"generation failed", "AttributeError"}

GraphRunEnded == pc = "done" /\ ~result.from_cache /\ ~NodeFailed

C5_AsStated ==
    GraphRunEnded =>
        /\ state.risk_level = "high" =>
             /\ result.hitl_status = "pending"
             /\ ~Truthy(result.final_analysis)
        /\ state.risk_level \in {"low", "medium"} =>
             /\ Truthy(result.final_analysis)
             /\ result.hitl_status = NONE

(* C5, amended: every run that executed the graph without a node raising ends
   with hitl_status = pending, success and no final output when risk_level =
   high; when risk_level is low or medium hitl_status is unset, and the run
   ends with success and the synthesizer's content as final output if that
   content is non-empty, and as a failure ("did not produce a final analysis")
   with no final output if the synthesizer returned empty content. *)
C5_RiskRouting ==
    GraphRunEnded =>
        /\ state.risk_level \in {"low", "medium", "high"}
        /\ state.risk_level = "high" =>
             /\ result.hitl_status = "pending"
             /\ result.success
             /\ ~Truthy(result.final_analysis)
             /\ state.final_analysis = NONE
        /\ state.risk_level \in {"low", "medium"} =>
             /\ result.hitl_status = NONE
             /\ state.hitl_status = NONE
             /\ IF Truthy(state.final_analysis)
                THEN result.success /\ result.final_analysis = state.final_analysis
                ELSE /\ ~result.success
                     /\ result.final_analysis = ""
                     /\ result.error = "Agent completed but did not produce a final analysis."

\* A medium-risk run ended with the synthesizer's text.
C5_Witness ==
    /\ GraphRunEnded
    /\ state.risk_level = "medium"
    /\ result.final_analysis = "final-text"
    /\ result.success

(* C6: whenever run_analysis has returned hitl_status = pending for a run_id, a
   review row of that run_id has been stored. *)
C6_ReviewStoredBeforePending ==
    (result.returned /\ result.hitl_status = "pending") => HasReview

(* C7: an approval request that finds no review of the run_id, or a review
   whose status is not 'pending', is rejected (404, 400, or 500 from the
   update) and changes nothing: the review row, the audit record and the cache
   stay as they were and the synthesizer is not invoked. *)
NoPendingReview == ~HasReview \/ ReviewStatus # "pending"

StoresUnchanged == UNCHANGED <<reviews, audit, cache, synthLog, execLog, notified>>

C7_RejectedChangesNothing ==
    [][ /\ (napprovals' # napprovals /\ NoPendingReview) =>
             /\ StoresUnchanged
             /\ \A a \in Approvers : apc'[a] # apc[a] => apc'[a] = "done"
             /\ \E a \in Approvers : apc'[a] = "done" /\ aout'[a].code \in {"404", "400"}
        /\ \A a \in Approvers :
             (apc[a] = "approve" /\ apc'[a] # "approve" /\ NoPendingReview) =>
                 /\ StoresUnchanged
                 /\ apc'[a] = "done"
                 /\ aout'[a].code = "500"
      ]_vars

\* A request lost the update to a concurrent one, and a later one got 400.
C7_Witness ==
    /\ ReviewStatus = "edited"
    /\ aout["h1"].code = "400"
    /\ aout["h2"].code = "500"
    /\ aout["h2"].detail = "Failed to approve the review."
    /\ aout["h2"].log = NONE

(* C8: in the resume path the review's new status is written before the
   synthesizer is invoked: a handler that is about to call, or has called,
   synthesizer_node finds the review approved or edited, with reviewed_at set. *)
C8_StatusBeforeSynthesis ==
    ((\E a \in Approvers : apc[a] = "synth") \/ ResumedCalls # {}) =>
        /\ ReviewStatus \in {"approved", "edited"}
        /\ reviews[RunId].reviewed_at # NONE

\* A handler stands between approve_review and the synthesizer.
C8_Witness ==
    /\ apc["h2"] = "synth"
    /\ ReviewStatus = "approved"
    /\ synthLog = <<>>

(* C9: an accepted approval executes the synthesizer node only: no handler runs
   the router, a branch, the join or the gate, each of these ran at most once,
   nothing of the graph runs after a resumed synthesis, and the per-step
   outputs handed to the resumed synthesizer are those of the review row, which
   are those of the state at the pause. *)
StepSlots == {"panorama_content", "lexical_content", "historical_content",
              "intertextual_content"}

GraphNodes == BranchNodes \cup {"router", "join", "theological_validator", "hitl_pending"}

C9_ResumeRunsOnlySynthesis ==
    /\ \A i \in DOMAIN execLog :
         execLog[i].by \in Approvers => execLog[i].node = "synthesizer"
    /\ \A n \in GraphNodes : TimesRan(n) <= 1
    /\ \A i, j \in DOMAIN execLog :
         (i < j /\ execLog[i].by \in Approvers) => execLog[j].by \in Approvers
    /\ \A i \in ResumedCalls :
         /\ HasReview
         /\ \A f \in StepSlots :
              /\ synthLog[i].input[f] = reviews[RunId][f]
              /\ synthLog[i].input[f] = state[f]

\* The resumed synthesizer got the panorama and intertextual reports of the run.
C9_Witness ==
    \E i \in ResumedCalls :
        /\ synthLog[i].input.panorama_content = "panorama-text"
        /\ synthLog[i].input.intertextual_content = "intertextual-text"
        /\ synthLog[i].input.lexical_content = NONE

(* C10: on an accepted approval, if edited_content is supplied (any str, not
   None) the review becomes 'edited' with that edited_content and the
   synthesizer gets it as validation_content; if none is supplied the review
   becomes 'approved', edited_content stays unset and the synthesizer gets the
   original validation_content. *)
C10_OverrideApplied ==
    /\ \A a \in Approvers :
         apc[a] = "synth" =>
            IF aedit[a] # NONE
            THEN ReviewStatus = "edited" /\ reviews[RunId].edited_content = aedit[a]
            ELSE ReviewStatus = "approved" /\ reviews[RunId].edited_content = NONE
    /\ \A i \in ResumedCalls :
         IF synthLog[i].edited # NONE
         THEN synthLog[i].input.validation_content = synthLog[i].edited
         ELSE synthLog[i].input.validation_content = reviews[RunId].validation_content

----------------------------------------------------------------------------
(* C11: a review row is mutated at most once.  Whatever hitl_service call or
   resumed synthesis runs, in any order: no row is deleted; a row whose status
   is not 'pending' is left exactly as it is; and a row that changes was
   'pending' and becomes 'approved' or 'edited', all its other fields but
   edited_content and reviewed_at unchanged. *)
ReviewFrozenFields ==
    {"run_id", "risk_level", "alerts", "validation_content", "panorama_content",
     "lexical_content", "historical_content", "intertextual_content",
     "selected_modules", "model_versions", "tokens_consumed", "reasoning_steps"}

C11_ReviewMutatedOnce ==
    [][ \A r \in DOMAIN reviews :
          /\ r \in DOMAIN reviews'
          /\ reviews[r].status # "pending" => reviews'[r] = reviews[r]
          /\ reviews'[r] # reviews[r] =>
               /\ reviews[r].status = "pending"
               /\ reviews'[r].status \in {"approved", "edited"}
               /\ \A f \in ReviewFrozenFields : reviews'[r][f] = reviews[r][f]
      ]_vars

\* An approved review went through a further approval, a duplicate persist
\* and a resume.
C11_Witness ==
    /\ Len(opLog) = MaxOps
    /\ "run-1" \in DOMAIN reviews
    /\ reviews["run-1"].status = "edited"
    /\ opLog[1].op = "save_pending_review"
    /\ opLog[2] = [op |-> "approve_review", run_id |-> "run-1", ok |-> TRUE, out |-> TRUE]
    /\ opLog[3].op \in {"save_pending_review", "resume"}
    /\ opLog[3].run_id = "run-1"
    /\ opLog[3].ok

(* C12: persisting a pending review is idempotent per run_id: a
   save_pending_review for a run_id that has a row, pending or not, leaves the
   table as it is and, unless the database call itself fails, raises nothing;
   a run_id has one row at most (run_id is UNIQUE). *)
C12_PersistIdempotent ==
    [][ (/\ Len(opLog') = Len(opLog) + 1
         /\ Last(opLog').op = "save_pending_review"
         /\ Last(opLog').run_id \in DOMAIN reviews)
        => /\ reviews' = reviews
           /\ Last(opLog').ok => ~Last(opLog').out
      ]_vars

\* A second persist, with another validation, came after the approval.
C12_Witness ==
    /\ Len(opLog) = 3
    /\ opLog[1] = [op |-> "save_pending_review", run_id |-> "run-2", ok |-> TRUE, out |-> FALSE]
    /\ opLog[2] = [op |-> "approve_review", run_id |-> "run-2", ok |-> TRUE, out |-> TRUE]
    /\ opLog[3] = [op |-> "save_pending_review", run_id |-> "run-2", ok |-> TRUE, out |-> FALSE]
    /\ reviews["run-2"].status = "approved"

(* C13: a failure of the notifier does not fail the pause.  When
   send_hitl_notification returned False (nothing was handed to SMTP), the pause
   node still returns hitl_status = pending and run_analysis reports the run as
   pending and successful; the node's notification step leaves the review
   table as it is. *)
NotifierFailed ==
    /\ pc \in {"finish", "done"}
    /\ Ran("graph", "hitl_pending")
    /\ notified = <<>>

C13_NotifierFailureKeepsPause ==
    /\ [](NotifierFailed =>
            /\ state.hitl_status = "pending"
            /\ pc = "done" =>
                 /\ result.hitl_status = "pending"
                 /\ result.success
                 /\ result.error = NONE)
    /\ [][(pc = "notify" /\ pc' # "notify") =>
            /\ pc' = "finish"
            /\ HasReview => (HasReview' /\ reviews'[RunId] = reviews[RunId])]_vars

\* A paused run was returned as pending, its review stored, nobody notified.
C13_Witness ==
    /\ NotifierFailed
    /\ pc = "done"
    /\ HasReview
    /\ ReviewStatus = "pending"
    /\ result.hitl_status = "pending"

(* C14: the failure of a node (a branch, the gate or the synthesizer of the
   graph) aborts the run without retry.  Once run_analysis has reported the
   failure, no node is executed any more and the state stays as it was; no node
   ran twice; after a branch failure neither the join nor the gate ran and no
   branch output was merged, after a gate failure neither the pause nor the
   synthesizer ran; and there is no final output, in the state, in the result
   or in the cache. *)
FailedNode == Last(execLog).node

C14_FailureAbortsRun ==
    /\ [](NodeFailed =>
            /\ pc = "done"
            /\ Last(execLog).by = "graph"
            /\ \A n \in GraphNodes \cup {"synthesizer"} : TimesRan(n) <= 1
            /\ FailedNode \in BranchNodes =>
                 /\ ~Ran("graph", "join")
                 /\ ~GateStarted
                 /\ state = prepare_agent_state(req, RunId)
            /\ FailedNode \in BranchNodes \cup {"theological_validator"} =>
                 /\ ~Ran("graph", "hitl_pending")
                 /\ ~Ran("graph", "synthesizer")
                 /\ synthLog = <<>>
            /\ state.final_analysis = NONE
            /\ result.final_analysis = ""
            /\ ~result.success
            /\ RunCacheKey \in DOMAIN cache => cache[RunCacheKey].run_id # RunId)
    /\ [][NodeFailed => UNCHANGED <<execLog, synthLog, state, pc, result>>]_vars

\* A branch failed after a peer had returned; an approval came later.
C14_Witness ==
    /\ NodeFailed
    /\ FailedNode = "panorama_agent"
    /\ completed = <<"intertextual_agent">>
    /\ napprovals = 1

(* C15: whenever a generation, gate or synthesis step raised, in the initial
   execution or in the resumed synthesis, then (the audit store being
   available) the audit record of the run has success = false and the error
   message, and the failure handed to the caller carries the run_id. *)
ResumeFailed(a) == aout[a] = Rejected("500", "Synthesis failed", NONE)

HasAudit == RunId \in DOMAIN audit

C15_FailureAudited ==
    /\ (NodeFailed /\ ~auditErr) =>
          /\ HasAudit
          /\ ~audit[RunId].success
          /\ audit[RunId].error = result.error
          /\ result.run_id = RunId
    /\ \A a \in Approvers :
          (ResumeFailed(a) /\ ~auditErr) =>
             /\ HasAudit
             /\ ~audit[RunId].success
             /\ audit[RunId].error # NONE
             /\ "run_id" \in DOMAIN aout[a]
             /\ aout[a].run_id = RunId

(* C16: with the audit store available there is exactly one audit record per
   run_id.  No record exists under another run_id; once run_analysis has
   returned (cache hit, success, pending or failure) the record of the run
   exists; and a resumed synthesis that returns writes its outcome into that
   record, whose identity columns stay as they were, instead of a second one. *)
AuditIdentity == {"selected_modules", "risk_level", "model_versions", "tokens_consumed",
                  "reasoning_steps"}

C16_OneAuditRecord ==
    /\ [](/\ DOMAIN audit \subseteq {RunId}
          /\ (pc = "done" /\ ~auditErr) => HasAudit)
    /\ [][\A a \in Approvers :
            (apc[a] = "synth" /\ apc'[a] = "done" /\ aout'[a].code = "200" /\ ~auditErr') =>
               /\ DOMAIN audit' = {RunId}
               /\ audit'[RunId].final_analysis = aout'[a].final_analysis
               /\ audit'[RunId].hitl_status = aout'[a].hitl_status
               /\ audit'[RunId].success
               /\ HasAudit => \A f \in AuditIdentity : audit'[RunId][f] = audit[RunId][f]
         ]_vars

\* The record written for the pending run now holds the resumed outcome.
C16_Witness ==
    /\ pc = "done"
    /\ ~auditErr
    /\ result.hitl_status = "pending"
    /\ HasAudit
    /\ audit[RunId].hitl_status = "edited"
    /\ audit[RunId].final_analysis = "final-text"
    /\ audit[RunId].reasoning_steps = Some(state.reasoning_steps)

(* C17: a failure of an audit write never propagates.  What run_analysis
   returns (success, final output, hitl_status, error) is determined by what
   the run did, cache hit, failed node, pause, empty or non-empty synthesis,
   whether its audit write succeeded or not; and a resumed synthesis that
   returned is answered with 200 and its outcome whether or not its audit write
   succeeded. *)
RaisedBranches == { b \in BranchNodes : Ran("graph", b) /\ b \notin Range(completed) }

GateRaised == GateStarted /\ state.validation_content = NONE

SynthesisRaised == \E i \in DOMAIN synthLog : synthLog[i].by = "graph" /\ synthLog[i].raised

Visible(success, final_analysis, hitl_status, error) ==
    [success |-> success, final_analysis |-> final_analysis,
     hitl_status |-> hitl_status, error |-> error]

ExpectedOutcome ==
    IF ~Ran("graph", "router")
    THEN Visible(TRUE, cache[RunCacheKey].final_analysis, NONE, NONE)
    ELSE IF RaisedBranches # {}
    THEN Visible(FALSE, "", NONE,
                 IF \E b \in RaisedBranches : NodeRaisesAlways(b)
                 THEN "AttributeError" ELSE "generation failed")
    ELSE IF GateRaised \/ SynthesisRaised
    THEN Visible(FALSE, "", NONE, "generation failed")
    ELSE IF state.hitl_status = "pending"
    THEN Visible(TRUE, "", "pending", NONE)
    ELSE IF ~Truthy(state.final_analysis)
    THEN Visible(FALSE, "", NONE, "Agent completed but did not produce a final analysis.")
    ELSE Visible(TRUE, state.final_analysis, NONE, NONE)

C17_AuditFailureInvisible ==
    /\ [](pc = "done" =>
            Visible(result.success, result.final_analysis, result.hitl_status, result.error)
              = ExpectedOutcome)
    /\ [][\A a \in Approvers :
            (apc[a] = "synth" /\ apc'[a] = "done" /\ ~Last(synthLog').raised) =>
               /\ aout'[a].code = "200"
               /\ aout'[a].run_id = RunId
               /\ aout'[a].final_analysis \in SynthContents
               /\ aout'[a].hitl_status = reviews[RunId].status
         ]_vars

\* A successful run was returned as such although its audit write failed.
C17_Witness ==
    /\ pc = "done"
    /\ auditErr
    /\ ~HasAudit
    /\ result.success
    /\ result.final_analysis = "final-text"

(* C18 as stated: generate_cache_key is order-independent and input-sensitive.
   Two requests with the same book and chapter whose verses and modules are
   permutations of each other get the same key, and two requests that differ
   in book, chapter, the set of verses or the set of modules get different
   keys (the hash taken as injective). *)
Count(xs, v) == Cardinality({ i \in DOMAIN xs : xs[i] = v })

IsPermutation(xs, ys) ==
    /\ Len(xs) = Len(ys)
    /\ \A v \in Range(xs) \cup Range(ys) : Count(xs, v) = Count(ys, v)

Keyed == { w \in DOMAIN wreq : ~wout[w].cache_key.null }

C18_AsStated ==
    \A x, y \in Keyed :
        /\ (/\ wreq[x].book = wreq[y].book
            /\ wreq[x].chapter = wreq[y].chapter
            /\ IsPermutation(wreq[x].verses, wreq[y].verses)
            /\ IsPermutation(wreq[x].selected_modules, wreq[y].selected_modules))
           => wout[x].cache_key = wout[y].cache_key
        /\ (\/ wreq[x].book # wreq[y].book
            \/ wreq[x].chapter # wreq[y].chapter
            \/ Range(wreq[x].verses) # Range(wreq[y].verses)
            \/ Range(wreq[x].selected_modules) # Range(wreq[y].selected_modules))
           => wout[x].cache_key # wout[y].cache_key

(* C18, amended: the book counts up to letter case and surrounding whitespace.
   Two requests whose books are equal once stripped and lower-cased, with the
   same chapter and with verses and modules that are permutations of each
   other, get the same key; two requests that differ in the stripped,
   lower-cased book, in chapter, in the set of verses or in the set of modules
   get different keys (the hash taken as injective). *)
SameBook(b1, b2) == lower(strip(b1)) = lower(strip(b2))

C18_KeyNormalised ==
    \A x, y \in Keyed :
        /\ (/\ SameBook(wreq[x].book, wreq[y].book)
            /\ wreq[x].chapter = wreq[y].chapter
            /\ IsPermutation(wreq[x].verses, wreq[y].verses)
            /\ IsPermutation(wreq[x].selected_modules, wreq[y].selected_modules))
           => wout[x].cache_key = wout[y].cache_key
        /\ (\/ ~SameBook(wreq[x].book, wreq[y].book)
            \/ wreq[x].chapter # wreq[y].chapter
            \/ Range(wreq[x].verses) # Range(wreq[y].verses)
            \/ Range(wreq[x].selected_modules) # Range(wreq[y].selected_modules))
           => wout[x].cache_key # wout[y].cache_key

\* Two calls whose lists are in different orders got one key.
C18_Witness ==
    /\ Keyed = KeyCallers
    /\ wreq["a"].verses = <<1, 2>>
    /\ wreq["b"].verses = <<2, 1>>
    /\ wreq["a"].selected_modules = <<"panorama", "exegese">>
    /\ wreq["b"].selected_modules = <<"exegese", "panorama">>
    /\ wreq["a"].book = wreq["b"].book
    /\ wreq["a"].chapter = wreq["b"].chapter
    /\ wout["a"].cache_key = wout["b"].cache_key

(* C19: when runs of one logical request both write the cache, the key has one
   row, it holds the output and run_id of the first write that reached the
   table, no write that reached the table logs an error, and a write changes
   no hit_count (a new row starts at 0). *)
WritesOf(k) == { i \in DOMAIN cacheLog : cacheLog[i].key = k /\ cacheLog[i].ok }

FirstWrite(k) == CHOOSE i \in WritesOf(k) : \A j \in WritesOf(k) : i <= j

C19_FirstWriterWins ==
    /\ [](/\ \A i \in DOMAIN cacheLog :
               cacheLog[i].ok =>
                  LET k == cacheLog[i].key
                      first == cacheLog[FirstWrite(k)].by
                  IN  /\ k \in DOMAIN cache
                      /\ cache[k].run_id = WorkerRunId(first)
                      /\ cache[k].final_analysis = WorkerText[first]
                      /\ ~cacheLog[i].error
          /\ \A k \in DOMAIN cache : WritesOf(k) # {})
    /\ [][Len(cacheLog') > Len(cacheLog) =>
            \A k \in DOMAIN cache' :
               cache'[k].hit_count = IF k \in DOMAIN cache THEN cache[k].hit_count ELSE 0
         ]_vars

\* Two runs of one logical request, its lists in different orders, both missed
\* and both wrote; the row is the first writer's.
C19_Witness ==
    /\ Len(cacheLog) = 2
    /\ cacheLog[1].ok
    /\ cacheLog[2].ok
    /\ cacheLog[1].key = cacheLog[2].key
    /\ wreq[cacheLog[1].by] # wreq[cacheLog[2].by]
    /\ cache[cacheLog[1].key].final_analysis = WorkerText[cacheLog[1].by]
    /\ \A w \in CacheWorkers : wpc[w] = "done"

(* C20: a lookup that hits adds exactly one to the row's hit_count and returns
   the stored output, in one step: under every interleaving hit_count is the
   number of lookups that hit; a lookup that misses returns nothing and
   changes no row. *)
HitsOf(k) ==
    { w \in DOMAIN wreq :
        wout[w].returned /\ wout[w].from_cache /\ wout[w].cache_key = Some(k) }

C20_HitCountExact ==
    /\ [](\A k \in DOMAIN cache :
            /\ cache[k].hit_count = Cardinality(HitsOf(k))
            /\ \A w \in HitsOf(k) : wout[w].final_analysis = cache[k].final_analysis)
    /\ [][\A w \in DOMAIN wreq :
            /\ (wpc[w] = "cache" /\ wpc'[w] = "run") =>
                  /\ cache' = cache
                  /\ wout'[w] = wout[w]
            /\ (wpc[w] = "cache" /\ wpc'[w] = "done") =>
                  LET k == wout[w].cache_key.v
                  IN  /\ cache' = [cache EXCEPT ![k].hit_count = @ + 1]
                      /\ wout'[w].final_analysis = cache[k].final_analysis
         ]_vars

\* Two lookups hit the row a third run had written.
C20_Witness ==
    \E k \in DOMAIN cache :
        /\ cache[k].hit_count = 2
        /\ Cardinality(HitsOf(k)) = 2
        /\ \A w \in CacheWorkers : wpc[w] = "done"

(* C21: the cache is advisory.  A lookup that fails sends the run to the graph
   exactly as a miss does, nothing else changing; a run whose lookup or whose
   cache write failed returns what the execution determines, as it does with
   a working cache that misses: in particular a run that synthesized a final
   output returns it as a success although its cache write failed. *)
LookupFailed ==
    \E i \in DOMAIN cacheLog : cacheLog[i].op = "get_cached_analysis" /\ ~cacheLog[i].ok

WriteFailed ==
    \E i \in DOMAIN cacheLog : cacheLog[i].op = "save_to_cache" /\ ~cacheLog[i].ok

C21_CacheAdvisory ==
    /\ []((pc = "done" /\ (LookupFailed \/ WriteFailed)) =>
            /\ Ran("graph", "router")
            /\ ~result.from_cache
            /\ result.run_id = RunId
            /\ Visible(result.success, result.final_analysis, result.hitl_status, result.error)
                 = ExpectedOutcome
            /\ WriteFailed =>
                 /\ result.success
                 /\ Truthy(result.final_analysis)
                 /\ result.final_analysis = state.final_analysis
                 /\ result.model_versions = Some(state.model_versions))
    /\ [][(pc = "cache" /\ pc' # "cache" /\ ~Last(cacheLog').ok) =>
            /\ pc' = "router"
            /\ UNCHANGED <<req, state, dispatched, completed, result, cache, audit,
                           reviews, notified, execLog, synthLog>>
         ]_vars

\* A run whose lookup failed on a stored row and whose cache write failed too
\* returned its own synthesis.
C21_Witness ==
    /\ pc = "done"
    /\ LookupFailed
    /\ WriteFailed
    /\ RunCacheKey \in DOMAIN cache
    /\ cache[RunCacheKey].hit_count = 0
    /\ result.success
    /\ result.final_analysis = "final-text"

(* C22: a cache hit short-circuits the executor.  A lookup that finds the
   request's row ends run_analysis at once; the run then has executed no node
   (router, branch, join, gate, pause, synthesizer), stored no review and
   notified nobody, its result is the stored output marked from_cache, and,
   the audit store being available, the audit record of the run holds that
   output with success = true. *)
CacheHit == result.returned /\ result.from_cache

C22_HitShortCircuits ==
    /\ [](CacheHit =>
            /\ pc = "done"
            /\ execLog = <<>>
            /\ synthLog = <<>>
            /\ dispatched = {}
            /\ completed = <<>>
            /\ state = prepare_agent_state(req, RunId)
            /\ reviews = EmptyDict
            /\ notified = <<>>
            /\ result.success
            /\ result.run_id = RunId
            /\ result.final_analysis = cache[RunCacheKey].final_analysis
            /\ ~auditErr =>
                 /\ HasAudit
                 /\ audit[RunId].success
                 /\ audit[RunId].final_analysis = result.final_analysis)
    /\ [][(/\ pc = "cache"
           /\ pc' # "cache"
           /\ Last(cacheLog').ok
           /\ RunCacheKey \in DOMAIN cache) =>
            /\ pc' = "done"
            /\ result'.returned
            /\ result'.from_cache
            /\ cache' = [cache EXCEPT ![RunCacheKey].hit_count = @ + 1]
         ]_vars

\* The stored output was returned and audited; an approval for the run_id
\* found no review.
C22_Witness ==
    /\ CacheHit
    /\ result.final_analysis = "cached-text"
    /\ cache[RunCacheKey].hit_count = 1
    /\ HasAudit
    /\ audit[RunId].final_analysis = "cached-text"
    /\ \E a \in Approvers : aout[a].code = "404"

(* C23: the life of a cache entry.  Once a run of the request has completed
   successfully with a final output, inside run_analysis or through an
   approved review's resumed synthesis, and no cache call failed, the entry of
   the request's key exists; an entry comes into being only at such a
   completion, with that run's output and hit_count 0; an entry that exists
   is never deleted, its output and inputs never change, and its hit_count
   changes only by increments of one. *)
RunSynthesized ==
    /\ pc = "done"
    /\ ~result.from_cache
    /\ result.success
    /\ Truthy(result.final_analysis)

ResumeSynthesized ==
    \E a \in Approvers : aout[a].code = "200" /\ Truthy(aout[a].final_analysis)

CacheAvailable == \A i \in DOMAIN cacheLog : cacheLog[i].ok

CacheEntryFrozen ==
    \A k \in DOMAIN cache :
        /\ k \in DOMAIN cache'
        /\ cache'[k].final_analysis = cache[k].final_analysis
        /\ cache'[k].selected_modules = cache[k].selected_modules
        /\ cache'[k].run_id = cache[k].run_id
        /\ cache'[k].hit_count \in {cache[k].hit_count, cache[k].hit_count + 1}

CacheEntryCreated ==
    \A k \in DOMAIN cache' \ DOMAIN cache :
        /\ pc = "finish"
        /\ pc' = "done"
        /\ k = RunCacheKey
        /\ result'.success
        /\ cache'[k].final_analysis = result'.final_analysis
        /\ cache'[k].selected_modules = req.selected_modules
        /\ cache'[k].hit_count = 0

C23_CacheEntryLifecycle ==
    /\ [](((RunSynthesized \/ ResumeSynthesized) /\ CacheAvailable) =>
            RunCacheKey \in DOMAIN cache)
    /\ [][CacheEntryFrozen /\ CacheEntryCreated]_vars

(* C24 as stated: for each of model_versions, tokens_consumed and
   reasoning_steps, merging the updates of the branches of a fan-out in any
   two orders gives identical values. *)
MergedAll(m) == Range(wpc[m]) = DOMAIN wreq[m]

C24_AsStated ==
    \A x, y \in Mergers :
        (MergedAll(x) /\ MergedAll(y)) =>
            \A f \in Accumulators : wout[x][f] = wout[y][f]

(* C24, amended: merging the updates of the branches of a fan-out in any two
   orders gives identical model_versions and tokens_consumed (each branch
   writes its own key); reasoning_steps holds the same entries, one per
   branch, in the order of merging: the two lists are permutations of each
   other, and identical only when the orders are. *)
C24_ReducersUpToOrder ==
    \A x, y \in Mergers :
        (MergedAll(x) /\ MergedAll(y)) =>
            /\ \A f \in AccumulatorDicts :
                 /\ wout[x][f] = wout[y][f]
                 /\ DOMAIN wout[x][f] = DOMAIN wreq[x]
            /\ IsPermutation(wout[x].reasoning_steps, wout[y].reasoning_steps)
            /\ wout[x].reasoning_steps =
                 [i \in DOMAIN wpc[x] |-> wreq[x][wpc[x][i]].reasoning_steps[1]]
            /\ wout[x].reasoning_steps = wout[y].reasoning_steps <=> wpc[x] = wpc[y]

\* Four branches merged in two opposite orders.
C24_Witness ==
    /\ wpc["m1"] = <<"intertextual_agent", "panorama_agent", "lexical_agent",
                     "historical_agent">>
    /\ wpc["m2"] = <<"historical_agent", "lexical_agent", "panorama_agent",
                     "intertextual_agent">>
    /\ wout["m1"].model_versions = wout["m2"].model_versions
    /\ wout["m1"].reasoning_steps # wout["m2"].reasoning_steps

(* C25: for every request the router sends the state to the intertextual
   step, and to the panorama, lexical and historical steps exactly when the
   request selects 'panorama', 'exegese' and 'teologia': between 1 and 4
   targets, none twice; a branch node is executed only if it was dispatched,
   each at most once, and none before the router. *)
ModuleBranch ==
    [panorama |-> "panorama_agent", exegese |-> "lexical_agent",
     teologia |-> "historical_agent"]

ExpectedBranches ==
    {"intertextual_agent"} \cup { ModuleBranch[m] : m \in Range(req.selected_modules) }

C25_RouterDispatch ==
    /\ \A b \in BranchNodes : Ran("graph", b) => (Ran("graph", "router") /\ b \in dispatched)
    /\ \A b \in BranchNodes : TimesRan(b) <= 1
    /\ IF Ran("graph", "router")
       THEN /\ dispatched = ExpectedBranches
            /\ Range(router_function(state)) = dispatched
            /\ Len(router_function(state)) = Cardinality(dispatched)
            /\ Cardinality(dispatched) = Len(req.selected_modules) + 1
            /\ Cardinality(dispatched) \in 1..4
       ELSE dispatched = {}

\* The request selected the three modules: four steps dispatched, two returned.
C25_Witness ==
    /\ Len(req.selected_modules) = 3
    /\ Cardinality(dispatched) = 4
    /\ Range(completed) = {"intertextual_agent", "panorama_agent"}

(* C26: the graph of a run executes its nodes in the order router, branches,
   join, gate, then pause or synthesizer.  The router, the join, the gate and
   the terminal node run at most once each, in that order; the join runs
   only after every dispatched branch has returned; the gate only after the
   join; the pause node or the synthesizer only after the gate has returned,
   and never both; a graph run that ended without a node raising ran exactly
   one of the two. *)
PhaseOf(node) ==
    CASE node = "router" -> 1
      [] node \in BranchNodes -> 2
      [] node = "join" -> 3
      [] node = "theological_validator" -> 4
      [] node \in {"hitl_pending", "synthesizer"} -> 5

GraphSteps == { i \in DOMAIN execLog : execLog[i].by = "graph" }

C26_PhaseOrder ==
    /\ \A i, j \in GraphSteps :
         i < j =>
            /\ PhaseOf(execLog[i].node) <= PhaseOf(execLog[j].node)
            /\ PhaseOf(execLog[i].node) = PhaseOf(execLog[j].node) =>
                 (execLog[i].node \in BranchNodes /\ execLog[i].node # execLog[j].node)
    /\ Ran("graph", "join") =>
         /\ Ran("graph", "router")
         /\ dispatched \subseteq Range(completed)
         /\ \A b \in dispatched : Ran("graph", b)
    /\ GateStarted => Ran("graph", "join")
    /\ (Ran("graph", "hitl_pending") \/ Ran("graph", "synthesizer")) =>
         /\ GateStarted
         /\ state.validation_content = NodeContent("theological_validator")
         /\ state.risk_level # NONE
    /\ ~(Ran("graph", "hitl_pending") /\ Ran("graph", "synthesizer"))
    /\ GraphRunEnded =>
         /\ Ran("graph", "hitl_pending") \/ Ran("graph", "synthesizer")
         /\ \A n \in {"router", "join", "theological_validator"} : Ran("graph", n)

\* A run went through router, two branches, join, gate and synthesizer.
C26_Witness ==
    /\ pc = "done"
    /\ Len(execLog) = 6
    /\ execLog[1].node = "router"
    /\ execLog[2].node = "panorama_agent"
    /\ execLog[3].node = "intertextual_agent"
    /\ execLog[4].node = "join"
    /\ execLog[5].node = "theological_validator"
    /\ execLog[6] = [by |-> "graph", node |-> "synthesizer"]
    /\ result.success

(* C27: the audit record of a high-risk run, the audit store being available.
   The record run_analysis writes when the run pauses has success = true and
   hitl_status = pending and is the only record.  When, later, an approval
   with an edited content is accepted and its synthesis returns an output,
   the review is 'edited', the synthesizer was called for the approval, and
   the same record, still the only one, holds that output with success =
   true and hitl_status = edited, its risk_level as written at the pause;
   the record then stays as it is. *)
PauseAudited ==
    /\ pc = "done"
    /\ result.hitl_status = "pending"
    /\ HasAudit

C27_PauseThenEditedAudit ==
    /\ [][(pc = "finish" /\ pc' = "done" /\ state.hitl_status = "pending" /\ ~auditErr') =>
            /\ state.risk_level = "high"
            /\ DOMAIN audit' = {RunId}
            /\ audit'[RunId].success
            /\ audit'[RunId].hitl_status = "pending"
            /\ audit'[RunId].risk_level = "high"
         ]_vars
    /\ [][\A a \in Approvers :
            (/\ PauseAudited
             /\ apc[a] = "synth"
             /\ apc'[a] = "done"
             /\ Truthy(aedit[a])
             /\ aout'[a].code = "200"
             /\ Truthy(aout'[a].final_analysis)
             /\ ~auditErr') =>
               /\ ReviewStatus = "edited"
               /\ reviews[RunId].edited_content = aedit[a]
               /\ Len(synthLog') = Len(synthLog) + 1
               /\ Last(synthLog').by = a
               /\ audit[RunId].hitl_status = "pending"
               /\ DOMAIN audit' = {RunId}
               /\ audit'[RunId].success
               /\ audit'[RunId].hitl_status = "edited"
               /\ audit'[RunId].final_analysis = aout'[a].final_analysis
               /\ audit'[RunId].risk_level = audit[RunId].risk_level
         ]_vars
    /\ [][(PauseAudited /\ audit[RunId].hitl_status = "edited") => audit' = audit]_vars

\* The pending record of a paused run took the output of the approval that
\* carried the second edit.
C27_Witness ==
    /\ PauseAudited
    /\ ~auditErr
    /\ ReviewStatus = "edited"
    /\ reviews[RunId].edited_content = "edit-2"
    /\ audit[RunId].hitl_status = "edited"
    /\ audit[RunId].final_analysis = "final-text"
    /\ audit[RunId].risk_level = "high"
    /\ \E a \in Approvers : aout[a].code = "200" /\ aout[a].hitl_status = "edited"

(* C28: _merge_dicts returns the union of the existing and the incoming map,
   with the incoming value on a common key, None counting as the empty map;
   it is associative; and for maps without a common key the result does not
   depend on the order of the two arguments. *)
KeysOf(operand) == IF operand.null THEN {} ELSE DOMAIN operand.v

IsUnionIncomingWins(merged, left, right) ==
    /\ DOMAIN merged = KeysOf(left) \cup KeysOf(right)
    /\ \A k \in KeysOf(right) : merged[k] = right.v[k]
    /\ \A k \in KeysOf(left) \ KeysOf(right) : merged[k] = left.v[k]

C28_MergeDicts ==
    /\ \A p \in {<<"a", "b">>, <<"b", "a">>, <<"b", "c">>} :
         (p[1] \o p[2]) \in DOMAIN wout =>
             IsUnionIncomingWins(wout[p[1] \o p[2]], wreq[p[1]], wreq[p[2]])
    /\ "ab_c" \in DOMAIN wout => IsUnionIncomingWins(wout["ab_c"], Some(wout["ab"]), wreq["c"])
    /\ "a_bc" \in DOMAIN wout => IsUnionIncomingWins(wout["a_bc"], wreq["a"], Some(wout["bc"]))
    /\ {"ab_c", "a_bc"} \subseteq DOMAIN wout => wout["ab_c"] = wout["a_bc"]
    /\ ({"ab", "ba"} \subseteq DOMAIN wout /\ KeysOf(wreq["a"]) \cap KeysOf(wreq["b"]) = {})
         => wout["ab"] = wout["ba"]

\* A common key with two values, a None operand, the five calls made.
C28_Witness ==
    /\ DOMAIN wout = {"ab", "ba", "bc", "ab_c", "a_bc"}
    /\ wreq["a"] = Some(("panorama_agent" :> ModelTier.LITE))
    /\ wreq["b"] = Some(("panorama_agent" :> ModelTier.TOP) @@ ("synthesizer" :> ModelTier.TOP))
    /\ wreq["c"] = NoneD
    /\ wout["ab"]["panorama_agent"] = ModelTier.TOP
    /\ wout["ba"]["panorama_agent"] = ModelTier.LITE
    /\ wout["bc"] = wreq["b"].v

(* C29 as stated: in the final state of a graph run that ended without a node
   raising, reasoning_steps holds exactly one entry for each node that was
   executed (branches, join, gate, pause node or synthesizer) and none for
   any other node, and the keys of model_versions and of tokens_consumed are
   the executed nodes. *)
AddedNodes == BranchNodes \cup {"join", "theological_validator", "hitl_pending", "synthesizer"}

ExecutedNodes == { n \in AddedNodes : Ran("graph", n) }

EntriesOf(node) ==
    Cardinality({ i \in DOMAIN state.reasoning_steps : state.reasoning_steps[i].node = node })

C29_AsStated ==
    GraphRunEnded =>
        /\ \A n \in AddedNodes : EntriesOf(n) = IF n \in ExecutedNodes THEN 1 ELSE 0
        /\ DOMAIN state.model_versions = ExecutedNodes
        /\ DOMAIN state.tokens_consumed = ExecutedNodes

(* C29, amended: in the final state of a graph run that ended without a node
   raising, reasoning_steps holds exactly one entry for each executed node
   that calls the model (the branches, the gate, the synthesizer) and none
   for any other node: the join and the pause node are executed and leave no
   entry.  The keys of model_versions and of tokens_consumed are those same
   nodes. *)
ReportingNodes == ExecutedNodes \ {"join", "hitl_pending"}

C29_OneEntryPerModelNode ==
    GraphRunEnded =>
        /\ "join" \in ExecutedNodes
        /\ \A n \in AddedNodes : EntriesOf(n) = IF n \in ReportingNodes THEN 1 ELSE 0
        /\ Len(state.reasoning_steps) = Cardinality(ReportingNodes)
        /\ DOMAIN state.model_versions = ReportingNodes
        /\ DOMAIN state.tokens_consumed = ReportingNodes

\* A paused run: entries of two branches and the gate, none of the join or
\* the pause node.
C29_Witness ==
    /\ GraphRunEnded
    /\ ExecutedNodes = {"intertextual_agent", "panorama_agent", "join",
                        "theological_validator", "hitl_pending"}
    /\ Len(state.reasoning_steps) = 3
    /\ state.reasoning_steps[3].node = "theological_validator"

(* C30: single writer per output field.  Each of the four content slots,
   validation_content, final_analysis, risk_level and hitl_status has one
   node that writes it: the update a node returns holds, apart from the
   accumulators, its own fields only; a field changes in the run's state only
   from unset to the value of its writer, which has been executed, and a
   field that holds a value is never changed again. *)
Writer ==
    [panorama_content |-> "panorama_agent",
     lexical_content |-> "lexical_agent",
     historical_content |-> "historical_agent",
     intertextual_content |-> "intertextual_agent",
     validation_content |-> "theological_validator",
     risk_level |-> "theological_validator",
     final_analysis |-> "synthesizer",
     hitl_status |-> "hitl_pending"]

FieldsOf(node) == { f \in DOMAIN Writer : Writer[f] = node }

\* The fields of an update that are replaced, not reduced.
Written(update) == DOMAIN update \ Accumulators

NodeUpdatesOwnFields ==
    /\ \A b \in BranchNodes :
         ~NodeRaisesAlways(b) => Written(BranchUpdate(b)) = FieldsOf(b)
    /\ \A b \in BranchNodes : Written(Contribution(b, ModelTier.LITE)) = FieldsOf(b)
    /\ \A out \in GateOutputs :
         Written(theological_validator_node(out)) = FieldsOf("theological_validator")
    /\ \A content \in SynthContents :
         Written(synthesizer_node(content)) = FieldsOf("synthesizer")
    /\ \A sent \in BOOLEAN : Written(hitl_pending_node(state, sent)) = FieldsOf("hitl_pending")
    /\ Written(join_node(state)) = {}

C30_SingleWriter ==
    /\ []NodeUpdatesOwnFields
    /\ [](\A f \in DOMAIN Writer : state[f] # NONE => Ran("graph", Writer[f]))
    /\ [][\A f \in DOMAIN Writer :
            state'[f] # state[f] =>
               /\ state[f] = NONE
               /\ \E i \in DOMAIN execLog' :
                    execLog'[i] = [by |-> "graph", node |-> Writer[f]]
         ]_vars

\* Six fields of a finished run hold the value of their writer.
C30_Witness ==
    /\ pc = "done"
    /\ state.panorama_content = "panorama-text"
    /\ state.intertextual_content = "intertextual-text"
    /\ state.validation_content = "validation-text"
    /\ state.risk_level = "medium"
    /\ state.final_analysis = "final-text"
    /\ state.hitl_status = NONE
    /\ state.lexical_content = NONE

(* C31: a save_run for a run_id that has a record changes, of that record,
   only final_analysis, success, error and hitl_status: the record is kept,
   and its inputs, risk_level, model_versions, tokens_consumed and
   reasoning_steps stay as first written, whatever the later call passes. *)
AuditOutcome == {"final_analysis", "success", "error", "hitl_status"}

C31_AuditUpdateFrame ==
    [][\A r \in DOMAIN audit :
          /\ r \in DOMAIN audit'
          /\ DOMAIN audit'[r] = DOMAIN audit[r]
          /\ \A f \in DOMAIN audit[r] \ AuditOutcome : audit'[r][f] = audit[r][f]
      ]_vars

\* The record of a paused run was updated by an approval without edit: the
\* outcome is the resumed one, the accumulators are those of the pause and
\* not the synthesizer's alone.
C31_Witness ==
    /\ HasAudit
    /\ audit[RunId].hitl_status = "approved"
    /\ audit[RunId].final_analysis = "final-text"
    /\ audit[RunId].model_versions = Some(state.model_versions)
    /\ "synthesizer" \notin DOMAIN audit[RunId].model_versions.v
    /\ audit[RunId].selected_modules = req.selected_modules
    /\ \E a \in Approvers :
         aout[a].code = "200" /\ "synthesizer" \in DOMAIN aout[a].model_versions.v

----------------------------------------------------------------------------
(* C32: the conditional edge after the gate routes to the pause only when the
   risk_level of the state is exactly 'high'; a state whose risk_level is
   absent or None is treated as the lowest severity: the edge returns the
   synthesis target, as it does for 'low', and never fails to return one of
   its two targets.  The state it is applied to carries the merged updates of
   the branches that passed the barrier. *)
EdgeRouted == wpc # <<>> /\ Last(wpc) # "theological_validator"

RiskUnset(st) == "risk_level" \notin DOMAIN st \/ st.risk_level = NONE

C32_RouteOnHighOnly ==
    EdgeRouted =>
        /\ Last(wpc) \in {"hitl_pending", "synthesizer"}
        /\ Last(wpc) = "hitl_pending" <=> (~RiskUnset(wout) /\ wout.risk_level = "high")
        /\ RiskUnset(wout) =>
             /\ Last(wpc) = "synthesizer"
             /\ Last(wpc) = route_after_validation([risk_level |-> "low"])
        /\ {"intertextual_agent", "panorama_agent"} \subseteq DOMAIN wout.model_versions
        /\ Len(wpc) = 2 => Last(wout.reasoning_steps).node = "theological_validator"

C32_Witness ==
    /\ EdgeRouted
    /\ "risk_level" \notin DOMAIN wout
    /\ Last(wpc) = "synthesizer"
    /\ wout.panorama_content = "panorama-text"

----------------------------------------------------------------------------
(* C33: when the pause node runs, the last entry of reasoning_steps is the
   entry of the gate, whichever branches ran and in whichever order they
   returned; the alerts stored in the review row and the alerts handed to the
   notifier are the alerts of the gate's entry. *)
GateEntries(steps) == { i \in DOMAIN steps : steps[i].node = "theological_validator" }

GateAlerts(steps) == steps[CHOOSE i \in GateEntries(steps) : TRUE].alerts

AtPause == pc = "notify" \/ (pc = "edge" /\ route_after_validation(state) = "hitl_pending")

C33_PauseReadsGateEntry ==
    /\ AtPause =>
         /\ Cardinality(GateEntries(state.reasoning_steps)) = 1
         /\ Last(state.reasoning_steps).node = "theological_validator"
    /\ HasReview =>
         /\ Cardinality(GateEntries(state.reasoning_steps)) = 1
         /\ reviews[RunId].alerts = GateAlerts(state.reasoning_steps)
    /\ \A i \in DOMAIN notified :
         /\ Cardinality(GateEntries(state.reasoning_steps)) = 1
         /\ notified[i].alerts = GateAlerts(state.reasoning_steps)

C33_Witness ==
    /\ HasReview
    /\ notified # <<>>
    /\ reviews[RunId].alerts = <<"alert">>
    /\ notified[1].alerts = <<"alert">>
    /\ Len(state.reasoning_steps) = 3
    /\ state.reasoning_steps[1].node = "panorama_agent"
    /\ state.reasoning_steps[2].node = "intertextual_agent"

----------------------------------------------------------------------------
(* C34: provided every external call eventually returns or fails, the
   run_analysis call eventually terminates, for every selection of branches
   (the barrier does not block), and a terminated call has exactly one of four
   outcomes: served from the cache, synthesized (success with a final output),
   paused (hitl_status = pending), failed (success = false). *)
RunReturned == pc = "done" /\ result.returned

ServedFromCache == result.from_cache

SynthesizedOutcome ==
    /\ ~result.from_cache
    /\ result.success
    /\ result.hitl_status # "pending"
    /\ Truthy(result.final_analysis)

PausedOutcome == ~result.from_cache /\ result.hitl_status = "pending"

FailedOutcome == ~result.success

OutcomeCount ==
    Cardinality({ o \in {"cache", "synthesized", "paused", "failed"} :
        \/ o = "cache" /\ ServedFromCache
        \/ o = "synthesized" /\ SynthesizedOutcome
        \/ o = "paused" /\ PausedOutcome
        \/ o = "failed" /\ FailedOutcome })

C34_RunTerminates ==
    /\ <>RunReturned
    /\ [](pc = "done" => (result.returned /\ OutcomeCount = 1))

C34_Witness ==
    /\ RunReturned
    /\ PausedOutcome
    /\ OutcomeCount = 1
    /\ dispatched = {"intertextual_agent", "panorama_agent"}
    /\ Len(completed) = 2

----------------------------------------------------------------------------
(* C35: a paused run can still be completed after a failed resume: once the
   synthesis step of an accepted approval has failed, and no accepted approval
   obtained a final output or is still being served, the review is pending
   again, so that a later approval request of the run_id is accepted and runs
   the synthesis again. *)
ResumeRaised == \E i \in ResumedCalls : synthLog[i].raised

ResumeReturned == \E i \in ResumedCalls : ~synthLog[i].raised

ApprovalInProgress == \E a \in Approvers : apc[a] \in {"approve", "synth"}

C35_FailedResumeReopens ==
    (ResumeRaised /\ ~ResumeReturned /\ ~ApprovalInProgress) =>
        (HasReview /\ ReviewStatus = "pending")

----------------------------------------------------------------------------
(* C36: a review notification is sent for a run_id only after a review row of
   that run_id has been stored: whenever a notification of a run_id has been
   handed to the notifier, the review table holds a row of that run_id. *)
C36_NotifiedOnlyStored ==
    \A i \in DOMAIN notified : notified[i].run_id \in DOMAIN reviews

----------------------------------------------------------------------------
(* C37: a cache entry is created, or its output changed, only by the step that
   ends a run_analysis call whose graph reached the synthesizer in the initial
   execution and produced a non-empty final output; the entry then holds that
   output.  A run that ends paused, a run that fails, a request served from the
   cache and the resume after an approval leave the entries and their outputs
   as they were. *)
CacheOutputWritten ==
    \E k \in DOMAIN cache' :
        \/ k \notin DOMAIN cache
        \/ cache'[k].final_analysis # cache[k].final_analysis

SynthesizedInitially ==
    /\ pc = "finish"
    /\ Ran("graph", "synthesizer")
    /\ ~Ran("graph", "hitl_pending")
    /\ Truthy(state.final_analysis)

C37_CacheWrittenBySynthesizedRun ==
    [][ /\ CacheOutputWritten =>
             /\ SynthesizedInitially
             /\ pc' = "done"
             /\ result'.success /\ ~result'.from_cache
             /\ result'.hitl_status # "pending"
             /\ cache'[RunCacheKey].final_analysis = state.final_analysis
             /\ cache'[RunCacheKey].run_id = RunId
             /\ synthLog' = synthLog
        /\ DOMAIN cache \subseteq DOMAIN cache'
      ]_vars

C37_Witness ==
    /\ RunCacheKey \in DOMAIN cache
    /\ cache[RunCacheKey].run_id = RunId
    /\ cache[RunCacheKey].final_analysis = "final-text"
    /\ Ran("graph", "synthesizer")
    /\ state.risk_level = "medium"
    /\ \E a \in Approvers : aout[a].code = "404"

----------------------------------------------------------------------------
(* C38: after a resumed synthesis the accumulators reported for the run, in
   the response of the approval and in the audit record, hold the contribution
   of every node that executed before the pause together with the contribution
   of the synthesizer. *)
NodesBeforePause == DOMAIN state.model_versions

NodesOfSteps(steps) == { steps[i].node : i \in DOMAIN steps }

ResumedNodes == NodesBeforePause \cup {"synthesizer"}

C38_ResumedAccumulatorsComplete ==
    \A a \in Approvers :
        aout[a].code = "200" =>
            /\ NodesBeforePause = ExecutedNodes \cap DOMAIN state.model_versions
            /\ DOMAIN OrD(aout[a].model_versions, EmptyDict) = ResumedNodes
            /\ DOMAIN OrD(aout[a].tokens_consumed, EmptyDict) = ResumedNodes
            /\ (HasAudit /\ ~auditErr /\ audit[RunId].hitl_status \in {"approved", "edited"}) =>
                 /\ DOMAIN OrD(audit[RunId].model_versions, EmptyDict) = ResumedNodes
                 /\ DOMAIN OrD(audit[RunId].tokens_consumed, EmptyDict) = ResumedNodes
                 /\ NodesOfSteps(OrD(audit[RunId].reasoning_steps, <<>>)) = ResumedNodes

----------------------------------------------------------------------------
(* C39: the connection pool is a singleton: between two close_pool calls (and
   before the first) at most one pool is created, also when several request
   threads call get_pool concurrently for the first time; a get_pool call made
   after close_pool has returned creates a fresh pool. *)
SameEpoch(i, j) == \A k \in i..j : opLog[k].op # "close_pool"

C39_PoolSingleton ==
    /\ \A i, j \in PoolEvents("create") : (i < j) => ~SameEpoch(i, j)
    /\ \A i \in PoolEvents("close_pool"), j \in PoolEvents("create") :
         (i < j) => opLog[j].pool # opLog[i].pool

====
